---- MODULE Spec2Model ----
(***************************************************************************)
(* Dispatch and policy layer of the MCP database server: the tool catalog, *)
(* the read-only gate and the CallTool handler of DatabaseMCPServer        *)
(* (server.ts), over the adapters of src/adapters.                         *)
(*                                                                         *)
(* A string the code inspects lexically (the statement given to query,     *)
(* execute_sql and explain_query) is a sequence of lexemes; trim,          *)
(* toUpperCase and startsWith act on that sequence as the JavaScript       *)
(* methods act on the characters.  Every other argument value is only      *)
(* present or absent: the handler never looks inside it.                   *)
(***************************************************************************)
EXTENDS Integers, Sequences, FiniteSets, TLC

\* Longest statement, in lexemes, handed to query / execute_sql / explain_query.
MaxStmtLen == 3
\* Number of invocations that may be in flight at the same time.
MaxInFlight == 2
\* Number of connection-string variables set in the environment of a start.
MaxEnvSet == 2

(***************************************************************************)
(* process.env                                                             *)
(***************************************************************************)
\* The value of an environment variable that is not set.
Unset == "<undefined>"
\* Values of READ_ONLY_MODE the model starts the server with.
EnvValues == {Unset, "", "false", "FALSE", "0", "true", "yes", "1", "no"}

\* adapter.constructor.name of the adapter index.ts hands to the server.
AdapterTypes ==
  {"PostgresAdapter", "MySQLAdapter", "SQLiteAdapter",
   "RedisAdapter", "MongoAdapter", "LDAPAdapter"}
SqlAdapters == {"PostgresAdapter", "MySQLAdapter", "SQLiteAdapter"}

(***************************************************************************)
(* The tools of the ListTools handler, in the order they are pushed, with  *)
(* the properties and the required list of each inputSchema.               *)
(***************************************************************************)
SqlTools ==
  << [name |-> "query", properties |-> {"sql"}, required |-> {"sql"}],
     [name |-> "execute_sql", properties |-> {"sql"}, required |-> {"sql"}],
     [name |-> "list_tables", properties |-> {"schema"}, required |-> {}],
     [name |-> "describe_table", properties |-> {"table", "schema"}, required |-> {"table"}],
     [name |-> "list_schemas", properties |-> {}, required |-> {}],
     [name |-> "explain_query", properties |-> {"sql"}, required |-> {"sql"}],
     [name |-> "get_indexes", properties |-> {"table", "schema"}, required |-> {"table"}],
     [name |-> "get_foreign_keys", properties |-> {"table", "schema"}, required |-> {"table"}],
     [name |-> "get_table_size", properties |-> {"table", "schema"}, required |-> {"table"}],
     [name |-> "list_views", properties |-> {"schema"}, required |-> {}],
     [name |-> "describe_view", properties |-> {"view", "schema"}, required |-> {"view"}],
     [name |-> "search_tables", properties |-> {"pattern", "schema"}, required |-> {"pattern"}],
     [name |-> "get_table_stats", properties |-> {"table", "schema"}, required |-> {"table"}] >>

RedisTools ==
  << [name |-> "redis_get", properties |-> {"key"}, required |-> {"key"}],
     [name |-> "redis_set", properties |-> {"key", "value", "ttl"}, required |-> {"key", "value"}],
     [name |-> "redis_del", properties |-> {"key"}, required |-> {"key"}],
     [name |-> "redis_keys", properties |-> {"pattern"}, required |-> {"pattern"}],
     [name |-> "redis_exists", properties |-> {"key"}, required |-> {"key"}],
     [name |-> "redis_ttl", properties |-> {"key"}, required |-> {"key"}],
     [name |-> "redis_expire", properties |-> {"key", "seconds"}, required |-> {"key", "seconds"}],
     [name |-> "redis_type", properties |-> {"key"}, required |-> {"key"}],
     [name |-> "redis_dbsize", properties |-> {}, required |-> {}],
     [name |-> "redis_info", properties |-> {"section"}, required |-> {}],
     [name |-> "redis_hget", properties |-> {"key", "field"}, required |-> {"key", "field"}],
     [name |-> "redis_hset", properties |-> {"key", "field", "value"}, required |-> {"key", "field", "value"}],
     [name |-> "redis_hgetall", properties |-> {"key"}, required |-> {"key"}],
     [name |-> "redis_lrange", properties |-> {"key", "start", "stop"}, required |-> {"key", "start", "stop"}],
     [name |-> "redis_smembers", properties |-> {"key"}, required |-> {"key"}],
     [name |-> "redis_zrange", properties |-> {"key", "start", "stop", "with_scores"}, required |-> {"key", "start", "stop"}] >>

MongoTools ==
  << [name |-> "mongo_find", properties |-> {"collection", "filter", "limit", "skip"}, required |-> {"collection"}],
     [name |-> "mongo_find_one", properties |-> {"collection", "filter"}, required |-> {"collection"}],
     [name |-> "mongo_insert_one", properties |-> {"collection", "document"}, required |-> {"collection", "document"}],
     [name |-> "mongo_insert_many", properties |-> {"collection", "documents"}, required |-> {"collection", "documents"}],
     [name |-> "mongo_update_one", properties |-> {"collection", "filter", "update"}, required |-> {"collection", "filter", "update"}],
     [name |-> "mongo_update_many", properties |-> {"collection", "filter", "update"}, required |-> {"collection", "filter", "update"}],
     [name |-> "mongo_delete_one", properties |-> {"collection", "filter"}, required |-> {"collection", "filter"}],
     [name |-> "mongo_delete_many", properties |-> {"collection", "filter"}, required |-> {"collection", "filter"}],
     [name |-> "mongo_count", properties |-> {"collection", "filter"}, required |-> {"collection"}],
     [name |-> "mongo_aggregate", properties |-> {"collection", "pipeline"}, required |-> {"collection", "pipeline"}],
     [name |-> "mongo_list_collections", properties |-> {}, required |-> {}],
     [name |-> "mongo_get_collection_stats", properties |-> {"collection"}, required |-> {"collection"}],
     [name |-> "mongo_get_indexes", properties |-> {"collection"}, required |-> {"collection"}],
     [name |-> "mongo_create_index", properties |-> {"collection", "keys", "options"}, required |-> {"collection", "keys"}],
     [name |-> "mongo_get_database_stats", properties |-> {}, required |-> {}] >>

LdapTools ==
  << [name |-> "ldap_search", properties |-> {"base", "filter", "scope", "attributes"}, required |-> {"base", "filter"}],
     [name |-> "ldap_authenticate", properties |-> {"dn", "password"}, required |-> {"dn", "password"}],
     [name |-> "ldap_add", properties |-> {"dn", "attributes"}, required |-> {"dn", "attributes"}],
     [name |-> "ldap_modify", properties |-> {"dn", "change"}, required |-> {"dn", "change"}],
     [name |-> "ldap_delete", properties |-> {"dn"}, required |-> {"dn"}],
     [name |-> "ldap_compare", properties |-> {"dn", "attribute", "value"}, required |-> {"dn", "attribute", "value"}],
     [name |-> "ldap_search_folder_structure", properties |-> {"base", "depth", "include_entries"}, required |-> {}],
     [name |-> "ldap_list_folders", properties |-> {"base"}, required |-> {}] >>


(***************************************************************************)
(* The cases of the CallTool switch.  Every case has the same shape:       *)
(*   [this.checkReadOnly();] [if (!this.isX) throw ...;]                    *)
(*   [const { p, ... } = args;] ... await adapter.method(...)              *)
(* checkReadOnly: the case starts with this.checkReadOnly();               *)
(* onlyFor: the backend of its `only available for` guard, or "none";      *)
(* destructures: the first property of its `const {..} = args`, "" when    *)
(* the case does not destructure args; method: the adapter method called.  *)
(***************************************************************************)
Cases ==
  ("query" :> [checkReadOnly |-> FALSE, onlyFor |-> "none", destructures |-> "sql", method |-> "query"])
  @@ ("execute_sql" :> [checkReadOnly |-> TRUE, onlyFor |-> "none", destructures |-> "sql", method |-> "execute"])
  @@ ("list_tables" :> [checkReadOnly |-> FALSE, onlyFor |-> "none", destructures |-> "", method |-> "listTables"])
  @@ ("describe_table" :> [checkReadOnly |-> FALSE, onlyFor |-> "none", destructures |-> "table", method |-> "describeTable"])
  @@ ("list_schemas" :> [checkReadOnly |-> FALSE, onlyFor |-> "none", destructures |-> "", method |-> "listSchemas"])
  @@ ("explain_query" :> [checkReadOnly |-> FALSE, onlyFor |-> "none", destructures |-> "sql", method |-> "explainQuery"])
  @@ ("get_indexes" :> [checkReadOnly |-> FALSE, onlyFor |-> "none", destructures |-> "table", method |-> "getIndexes"])
  @@ ("get_foreign_keys" :> [checkReadOnly |-> FALSE, onlyFor |-> "none", destructures |-> "table", method |-> "getForeignKeys"])
  @@ ("get_table_size" :> [checkReadOnly |-> FALSE, onlyFor |-> "none", destructures |-> "table", method |-> "getTableSize"])
  @@ ("list_views" :> [checkReadOnly |-> FALSE, onlyFor |-> "none", destructures |-> "", method |-> "listViews"])
  @@ ("describe_view" :> [checkReadOnly |-> FALSE, onlyFor |-> "none", destructures |-> "view", method |-> "describeView"])
  @@ ("search_tables" :> [checkReadOnly |-> FALSE, onlyFor |-> "none", destructures |-> "pattern", method |-> "searchTables"])
  @@ ("get_table_stats" :> [checkReadOnly |-> FALSE, onlyFor |-> "none", destructures |-> "table", method |-> "getTableStats"])
  @@ ("redis_get" :> [checkReadOnly |-> FALSE, onlyFor |-> "Redis", destructures |-> "key", method |-> "get"])
  @@ ("redis_set" :> [checkReadOnly |-> TRUE, onlyFor |-> "Redis", destructures |-> "key", method |-> "set"])
  @@ ("redis_del" :> [checkReadOnly |-> TRUE, onlyFor |-> "Redis", destructures |-> "key", method |-> "del"])
  @@ ("redis_keys" :> [checkReadOnly |-> FALSE, onlyFor |-> "Redis", destructures |-> "pattern", method |-> "keys"])
  @@ ("redis_exists" :> [checkReadOnly |-> FALSE, onlyFor |-> "Redis", destructures |-> "key", method |-> "exists"])
  @@ ("redis_ttl" :> [checkReadOnly |-> FALSE, onlyFor |-> "Redis", destructures |-> "key", method |-> "ttl"])
  @@ ("redis_expire" :> [checkReadOnly |-> TRUE, onlyFor |-> "Redis", destructures |-> "key", method |-> "expire"])
  @@ ("redis_type" :> [checkReadOnly |-> FALSE, onlyFor |-> "Redis", destructures |-> "key", method |-> "type"])
  @@ ("redis_dbsize" :> [checkReadOnly |-> FALSE, onlyFor |-> "Redis", destructures |-> "", method |-> "dbsize"])
  @@ ("redis_info" :> [checkReadOnly |-> FALSE, onlyFor |-> "Redis", destructures |-> "section", method |-> "info"])
  @@ ("redis_hget" :> [checkReadOnly |-> FALSE, onlyFor |-> "Redis", destructures |-> "key", method |-> "hget"])
  @@ ("redis_hset" :> [checkReadOnly |-> TRUE, onlyFor |-> "Redis", destructures |-> "key", method |-> "hset"])
  @@ ("redis_hgetall" :> [checkReadOnly |-> FALSE, onlyFor |-> "Redis", destructures |-> "key", method |-> "hgetall"])
  @@ ("redis_lrange" :> [checkReadOnly |-> FALSE, onlyFor |-> "Redis", destructures |-> "key", method |-> "lrange"])
  @@ ("redis_smembers" :> [checkReadOnly |-> FALSE, onlyFor |-> "Redis", destructures |-> "key", method |-> "smembers"])
  @@ ("redis_zrange" :> [checkReadOnly |-> FALSE, onlyFor |-> "Redis", destructures |-> "key", method |-> "zrange"])
  @@ ("mongo_find" :> [checkReadOnly |-> FALSE, onlyFor |-> "MongoDB", destructures |-> "collection", method |-> "find"])
  @@ ("mongo_find_one" :> [checkReadOnly |-> FALSE, onlyFor |-> "MongoDB", destructures |-> "collection", method |-> "findOne"])
  @@ ("mongo_insert_one" :> [checkReadOnly |-> TRUE, onlyFor |-> "MongoDB", destructures |-> "collection", method |-> "insertOne"])
  @@ ("mongo_insert_many" :> [checkReadOnly |-> TRUE, onlyFor |-> "MongoDB", destructures |-> "collection", method |-> "insertMany"])
  @@ ("mongo_update_one" :> [checkReadOnly |-> TRUE, onlyFor |-> "MongoDB", destructures |-> "collection", method |-> "updateOne"])
  @@ ("mongo_update_many" :> [checkReadOnly |-> TRUE, onlyFor |-> "MongoDB", destructures |-> "collection", method |-> "updateMany"])
  @@ ("mongo_delete_one" :> [checkReadOnly |-> TRUE, onlyFor |-> "MongoDB", destructures |-> "collection", method |-> "deleteOne"])
  @@ ("mongo_delete_many" :> [checkReadOnly |-> TRUE, onlyFor |-> "MongoDB", destructures |-> "collection", method |-> "deleteMany"])
  @@ ("mongo_count" :> [checkReadOnly |-> FALSE, onlyFor |-> "MongoDB", destructures |-> "collection", method |-> "count"])
  @@ ("mongo_aggregate" :> [checkReadOnly |-> FALSE, onlyFor |-> "MongoDB", destructures |-> "collection", method |-> "aggregate"])
  @@ ("mongo_list_collections" :> [checkReadOnly |-> FALSE, onlyFor |-> "MongoDB", destructures |-> "", method |-> "listCollections"])
  @@ ("mongo_get_collection_stats" :> [checkReadOnly |-> FALSE, onlyFor |-> "MongoDB", destructures |-> "collection", method |-> "getCollectionStats"])
  @@ ("mongo_get_indexes" :> [checkReadOnly |-> FALSE, onlyFor |-> "MongoDB", destructures |-> "collection", method |-> "getIndexesForCollection"])
  @@ ("mongo_create_index" :> [checkReadOnly |-> TRUE, onlyFor |-> "MongoDB", destructures |-> "collection", method |-> "createIndex"])
  @@ ("mongo_get_database_stats" :> [checkReadOnly |-> FALSE, onlyFor |-> "MongoDB", destructures |-> "", method |-> "getDatabaseStats"])
  @@ ("ldap_search" :> [checkReadOnly |-> FALSE, onlyFor |-> "LDAP", destructures |-> "base", method |-> "search"])
  @@ ("ldap_authenticate" :> [checkReadOnly |-> FALSE, onlyFor |-> "LDAP", destructures |-> "dn", method |-> "authenticate"])
  @@ ("ldap_add" :> [checkReadOnly |-> TRUE, onlyFor |-> "LDAP", destructures |-> "dn", method |-> "add"])
  @@ ("ldap_modify" :> [checkReadOnly |-> TRUE, onlyFor |-> "LDAP", destructures |-> "dn", method |-> "modify"])
  @@ ("ldap_delete" :> [checkReadOnly |-> TRUE, onlyFor |-> "LDAP", destructures |-> "dn", method |-> "delete"])
  @@ ("ldap_compare" :> [checkReadOnly |-> FALSE, onlyFor |-> "LDAP", destructures |-> "dn", method |-> "compare"])
  @@ ("ldap_search_folder_structure" :> [checkReadOnly |-> FALSE, onlyFor |-> "LDAP", destructures |-> "base", method |-> "searchFolderStructure"])
  @@ ("ldap_list_folders" :> [checkReadOnly |-> FALSE, onlyFor |-> "LDAP", destructures |-> "base", method |-> "listFolders"])

CaseNames == DOMAIN Cases
\* Names the switch has no case for: they fall to `default`.
UnknownNames == {"no_such_tool", "redis_flushall"}
ToolNames == CaseNames \cup UnknownNames

\* A handler that pushes the SQL tools for every adapter.
ListTools_SqlAlways(redis, mongo, ldap) ==
     SqlTools
  \o (IF redis THEN RedisTools ELSE << >>)
  \o (IF mongo THEN MongoTools ELSE << >>)
  \o (IF ldap THEN LdapTools ELSE << >>)

\* A handler that does not push the two folder tools of LDAP.
ListTools_NoFolderTools(redis, mongo, ldap) ==
     (IF ~redis /\ ~mongo /\ ~ldap THEN SqlTools ELSE << >>)
  \o (IF redis THEN RedisTools ELSE << >>)
  \o (IF mongo THEN MongoTools ELSE << >>)
  \o (IF ldap THEN SubSeq(LdapTools, 1, 6) ELSE << >>)

\* The ListTools handler: the tools pushed for the three adapter flags.
ListTools(redis, mongo, ldap) ==
     (IF ~redis /\ ~mongo /\ ~ldap THEN SqlTools ELSE << >>)
  \o (IF redis THEN RedisTools ELSE << >>)
  \o (IF mongo THEN MongoTools ELSE << >>)
  \o (IF ldap THEN LdapTools ELSE << >>)

AllTools == SqlTools \o RedisTools \o MongoTools \o LdapTools
\* inputSchema of a tool, by name.
InputSchema ==
  [n \in CaseNames |->
     CHOOSE t \in {AllTools[k] : k \in 1..Len(AllTools)} : t.name = n]
PropertiesOf(name) ==
  IF name \in CaseNames THEN InputSchema[name].properties ELSE {}
RequiredOf(name) ==
  IF name \in CaseNames THEN InputSchema[name].required ELSE {}

(***************************************************************************)
(* Statements and the string methods the query case applies to them.       *)
(***************************************************************************)
Lexemes == {" ", "select", "SELECT", "DELETE", ";"}
Statements == UNION {[1..n -> Lexemes] : n \in 0..MaxStmtLen}

\* String.prototype.toUpperCase
toUpperCase(s) ==
  [k \in 1..Len(s) |-> IF s[k] = "select" THEN "SELECT" ELSE s[k]]
\* String.prototype.trim: drops the white space at both ends.
trim(s) ==
  LET ink == {k \in 1..Len(s) : s[k] # " "}
  IN  IF ink = {} THEN << >>
      ELSE SubSeq(s, CHOOSE k \in ink : \A j \in ink : k <= j,
                     CHOOSE k \in ink : \A j \in ink : j <= k)
\* String.prototype.startsWith, for a one-lexeme prefix.
startsWith(s, w) == Len(s) >= 1 /\ s[1] = w

(***************************************************************************)
(* Arguments of an invocation: undefined, or an object with some of the    *)
(* tool's properties; sql is the value of the property sql when present,   *)
(* vals the values of the other properties.                                *)
(***************************************************************************)
\* Strings given as the value of a property: keys, values, DNs.
ArgValues == {"a", "b"}
\* The value of a property the request does not vary: a number for ttl.
DefaultValue(p) == IF p = "ttl" THEN "60" ELSE "a"

UndefinedArgs == [defined |-> FALSE, props |-> {}, sql |-> << >>, vals |-> << >>]
ObjectArgs(props, sql) ==
  [defined |-> TRUE, props |-> props, sql |-> sql,
   vals |-> [p \in props |-> DefaultValue(p)]]
\* The object o with property p set to v.
With(o, p, v) ==
  [o EXCEPT !.props = @ \cup {p},
            !.vals = [q \in (DOMAIN @) \cup {p} |-> IF q = p THEN v ELSE @[q]]]
\* const { p } = args: the value of property p, undefined when it is absent.
Arg(args, p) == IF p \in DOMAIN args.vals THEN args.vals[p] ELSE Unset
\* if (v): the truth value of v, a string or undefined.
Truthy(v) == v \notin {Unset, ""}
ArgsFor(name) ==
  {UndefinedArgs, ObjectArgs({}, << >>), ObjectArgs(RequiredOf(name), << >>)}
  \cup {ObjectArgs(PropertiesOf(name), s) :
          s \in IF "sql" \in PropertiesOf(name) THEN Statements ELSE {<< >>}}

(***************************************************************************)
(* State                                                                   *)
(***************************************************************************)
VARIABLES
  READ_ONLY_MODE,  \* process.env.READ_ONLY_MODE
  env,             \* the other variables of process.env index.ts reads
  main,            \* index.ts: position, dbType, connectionString, exit status
  adapterType,     \* adapter.constructor.name
  readOnly,        \* DatabaseMCPServer.readOnly
  isRedis,         \* DatabaseMCPServer.isRedis
  isMongo,         \* DatabaseMCPServer.isMongo
  isLDAP,          \* DatabaseMCPServer.isLDAP
  inv,             \* the invocations: request, position in the handler,
                   \* adapter calls made, statements given to the driver,
                   \* responses returned
  listed,          \* the results of the ListTools requests: first and latest
  redis,           \* the Redis server behind RedisAdapter.client
  ldap,            \* LDAPAdapter.bindDN, bindPassword and the identity its
                   \* client is bound as
  folders,         \* the folder entries the directory holds under the base,
                   \* and the latest response of a folder tool
  handle           \* the driver handle of the adapter (pool, db or client):
                   \* whether it is there, how it was opened, the calls made

vars ==
  <<READ_ONLY_MODE, env, main, adapterType, readOnly, isRedis, isMongo, isLDAP,
    inv, listed, redis, ldap, folders, handle>>
server == <<READ_ONLY_MODE, adapterType, readOnly, isRedis, isMongo, isLDAP>>
process == <<env, main>>
backends == <<redis, ldap, folders, handle>>

Invocations == 1..MaxInFlight

\* An invocation: pc is its position in the handler, calls the adapter
\* methods it has called, driver the statements those handed to the driver,
\* errors the messages of the errors raised while handling it, response the
\* responses the handler has returned for it, ranAs the identities the LDAP
\* client was bound as when the directory ran its operations.
Idle ==
  [pc |-> "idle", name |-> "", args |-> UndefinedArgs,
   calls |-> << >>, driver |-> << >>, errors |-> << >>, response |-> << >>,
   ranAs |-> << >>]

(***************************************************************************)
(* index.ts: backend selection, connection string, createAdapter           *)
(***************************************************************************)
ConnectionKeys ==
  {"REDIS_CONNECTION_STRING", "REDIS_URL",
   "MONGODB_CONNECTION_STRING", "MONGODB_URL",
   "LDAP_CONNECTION_STRING", "LDAP_URL",
   "MYSQL_CONNECTION_STRING", "MYSQL_URL",
   "SQLITE_CONNECTION_STRING", "SQLITE_URL",
   "POSTGRES_CONNECTION_STRING", "DATABASE_URL"}
LdapKeys ==
  {"LDAP_BIND_DN", "LDAP_PASSWORD", "LDAP_BIND_PASSWORD",
   "LDAP_LOGIN", "LDAP_BASE_DN", "LDAP_ROOT_DOMAIN"}
EnvKeys == {"DB_TYPE"} \cup ConnectionKeys \cup LdapKeys

\* Values of DB_TYPE the model starts the process with.
DbTypeValues ==
  {Unset, "", "postgres", "postgresql", "POSTGRES", "PostgreSQL",
   "mysql", "mysql2", "MySQL", "sqlite", "SQLite", "redis", "Redis",
   "mongodb", "mongo", "MongoDB", "ldap", "LDAP", "oracle"}
\* The value a variable other than DB_TYPE has when it is set and not empty.
EnvValue(key) ==
  CASE key = "LDAP_BIND_DN" -> "CN=admin,DC=example,DC=com"
    [] key = "LDAP_PASSWORD" -> "secret"
    [] key = "LDAP_BIND_PASSWORD" -> "bind-secret"
    [] key = "LDAP_LOGIN" -> "jdoe"
    [] key = "LDAP_BASE_DN" -> "DC=example,DC=com"
    [] key = "LDAP_ROOT_DOMAIN" -> "example.org"
    [] OTHER -> "$" \o key
\* The environment with no variable set.
NoEnv == [k \in EnvKeys |-> Unset]

\* String.prototype.toLowerCase, on the values of DB_TYPE.
toLowerCase(s) ==
  CASE s = "POSTGRES" -> "postgres"
    [] s = "PostgreSQL" -> "postgresql"
    [] s = "MySQL" -> "mysql"
    [] s = "SQLite" -> "sqlite"
    [] s = "Redis" -> "redis"
    [] s = "MongoDB" -> "mongodb"
    [] s = "LDAP" -> "ldap"
    [] OTHER -> s
\* a || b on strings: a unless it is undefined or empty.
Or(a, b) == IF Truthy(a) THEN a ELSE b

\* const dbType = process.env.DB_TYPE || "postgres"
DbType(e) == Or(e["DB_TYPE"], "postgres")

\* An if-chain that reads DATABASE_URL for every backend.
ConnectionString_SharedFallback(e) ==
  Or(e["DATABASE_URL"], "postgresql://localhost:5432/postgres")

\* let connectionString: the if-chain on dbType.toLowerCase()
ConnectionString(e) ==
  LET t == toLowerCase(DbType(e)) IN
  IF t = "redis"
    THEN Or(e["REDIS_CONNECTION_STRING"],
            Or(e["REDIS_URL"], "redis://localhost:6379"))
  ELSE IF t = "mongodb" \/ t = "mongo"
    THEN Or(e["MONGODB_CONNECTION_STRING"],
            Or(e["MONGODB_URL"], "mongodb://localhost:27017"))
  ELSE IF t = "ldap"
    THEN Or(e["LDAP_CONNECTION_STRING"],
            Or(e["LDAP_URL"], "ldap://localhost:389"))
  ELSE IF t = "mysql" \/ t = "mysql2"
    THEN Or(e["MYSQL_CONNECTION_STRING"],
            Or(e["MYSQL_URL"], Or(e["DATABASE_URL"], "mysql://localhost:3306")))
  ELSE IF t = "sqlite"
    THEN Or(e["SQLITE_CONNECTION_STRING"],
            Or(e["SQLITE_URL"],
               Or(e["DATABASE_URL"], "sqlite://./database.sqlite")))
  ELSE Or(e["POSTGRES_CONNECTION_STRING"],
          Or(e["DATABASE_URL"], "postgresql://localhost:5432/postgres"))

\* A switch that compares dbType without lower-casing it.
AdapterClass_CaseSensitive(t) ==
  CASE t \in {"postgres", "postgresql"} -> "PostgresAdapter"
    [] t = "redis" -> "RedisAdapter"
    [] t \in {"mongodb", "mongo"} -> "MongoAdapter"
    [] t = "ldap" -> "LDAPAdapter"
    [] t \in {"mysql", "mysql2"} -> "MySQLAdapter"
    [] t = "sqlite" -> "SQLiteAdapter"
    [] OTHER -> "null"

\* createAdapter: the class the switch on dbType.toLowerCase() constructs for
\* dbType t, "null" when it falls to default and throws.
AdapterClass(t) ==
  CASE toLowerCase(t) \in {"postgres", "postgresql"} -> "PostgresAdapter"
    [] toLowerCase(t) = "redis" -> "RedisAdapter"
    [] toLowerCase(t) \in {"mongodb", "mongo"} -> "MongoAdapter"
    [] toLowerCase(t) = "ldap" -> "LDAPAdapter"
    [] toLowerCase(t) \in {"mysql", "mysql2"} -> "MySQLAdapter"
    [] toLowerCase(t) = "sqlite" -> "SQLiteAdapter"
    [] OTHER -> "null"
UnsupportedMessage(t) == "Unsupported database type: " \o t

\* How constructing and connecting an adapter of the class can end.  The
\* Postgres and MySQL adapters only create a pool; SQLiteAdapter opens the
\* file, MongoAdapter parses the URL, RedisAdapter and MongoAdapter connect.
CreateOutcomes(class) ==
  IF class \in {"PostgresAdapter", "MySQLAdapter"} THEN {"ok"}
  ELSE {"ok", "fail"}
CreateErrorMessage(class) ==
  CASE class = "SQLiteAdapter" -> "SQLITE_CANTOPEN"
    [] OTHER -> "ECONNREFUSED"

\* The LDAP client: not bound.
Anonymous == ""
\* baseDN.replace(/DC=/g, '').replace(/,/g, '.').replace(/DC\./g, '')
BaseDNToDomain(baseDN) ==
  IF baseDN = "DC=example,DC=com" THEN "example.com" ELSE baseDN
\* const bindDNFormats = [...]
BindDNFormats(login, baseDN, rootDomain) ==
  <<"CN=" \o login \o ",CN=Users," \o baseDN,
    login \o "@" \o Or(rootDomain, BaseDNToDomain(baseDN)),
    "CN=" \o login \o "," \o baseDN,
    "CN=" \o login \o ",OU=Users," \o baseDN,
    login>>
BindFailedMessage(lastError) ==
  "LDAP bind failed with all attempted formats. Last error: " \o lastError
InvalidCredentials == "InvalidCredentialsError"
\* The error client.bind(dn, password) rejects with: it names the bind it
\* answers, so that the failures of two attempts differ.
BindError(dn) == InvalidCredentials \o ": " \o dn

\* LDAPAdapter.connect(bindDN, bindPassword) on adapter state a, the bind
\* ending as outcome: the credentials are stored before the bind is awaited.
LdapConnect(a, bindDN, bindPassword, outcome) ==
  IF Truthy(bindDN) /\ Truthy(bindPassword)
  THEN [a EXCEPT !.bindDN = bindDN, !.bindPassword = bindPassword,
                 !.bound = IF outcome = "ok" THEN bindDN ELSE Anonymous,
                 !.binds = Append(@, [dn |-> bindDN, outcome |-> outcome]),
                 !.error = IF outcome = "ok" THEN "" ELSE BindError(bindDN)]
  ELSE [a EXCEPT !.error = ""]

\* A loop without the break: every format is tried, the last bind that
\* succeeded stays.
RECURSIVE TryFormats_NoBreak(_, _, _, _, _)
TryFormats_NoBreak(a, formats, bindPassword, outcomes, k) ==
  IF k > Len(formats)
    THEN IF \E j \in 1..Len(a.binds) : a.binds[j].outcome = "ok"
         THEN [a EXCEPT !.error = ""]
         ELSE [a EXCEPT !.error = BindFailedMessage(IF @ = "" THEN "null" ELSE @)]
  ELSE IF ~(Truthy(formats[k]) /\ Truthy(bindPassword))
    THEN TryFormats_NoBreak(a, formats, bindPassword, outcomes, k + 1)
  ELSE LET b == LdapConnect(a, formats[k], bindPassword, outcomes[k]) IN
       TryFormats_NoBreak(IF outcomes[k] = "ok" THEN b
                          ELSE [b EXCEPT !.bound = a.bound],
                          formats, bindPassword, outcomes, k + 1)

\* for (const format of bindDNFormats): the loop from format k on, bind
\* attempt j ending as outcomes[j].
RECURSIVE TryFormats(_, _, _, _, _)
TryFormats(a, formats, bindPassword, outcomes, k) ==
  IF k > Len(formats)
    THEN [a EXCEPT !.error =
            BindFailedMessage(IF @ = "" THEN "null" ELSE @)]
  ELSE IF ~(Truthy(formats[k]) /\ Truthy(bindPassword))
    THEN TryFormats(a, formats, bindPassword, outcomes, k + 1)
  ELSE LET b == LdapConnect(a, formats[k], bindPassword, outcomes[k]) IN
       IF b.error = "" THEN b
       ELSE TryFormats(b, formats, bindPassword, outcomes, k + 1)

\* new LDAPAdapter(connectionString)
NewLDAPAdapter ==
  [bindDN |-> "", bindPassword |-> "", bound |-> Anonymous,
   binds |-> << >>, error |-> "", pending |-> << >>]

\* createAdapter, case "ldap": the adapter it returns, or the error it throws
\* (error # ""), bind attempt j ending as outcomes[j].
CreateLDAPAdapter(e, outcomes) ==
  LET bindDN == e["LDAP_BIND_DN"]
      bindPassword == Or(e["LDAP_PASSWORD"], e["LDAP_BIND_PASSWORD"])
      login == e["LDAP_LOGIN"]
      baseDN == e["LDAP_BASE_DN"]
      rootDomain == e["LDAP_ROOT_DOMAIN"]
  IN  IF ~Truthy(bindDN)
      THEN IF Truthy(login) /\ Truthy(baseDN)
             THEN TryFormats(NewLDAPAdapter,
                             BindDNFormats(login, baseDN, rootDomain),
                             bindPassword, outcomes, 1)
           ELSE IF Truthy(login) /\ Truthy(rootDomain)
             THEN LdapConnect(NewLDAPAdapter, login \o "@" \o rootDomain,
                              bindPassword, outcomes[1])
           ELSE IF Truthy(login)
             THEN LdapConnect(NewLDAPAdapter, login, bindPassword, outcomes[1])
           ELSE NewLDAPAdapter
      ELSE IF Truthy(bindDN) /\ Truthy(bindPassword)
        THEN LdapConnect(NewLDAPAdapter, bindDN, bindPassword, outcomes[1])
      ELSE NewLDAPAdapter
\* The outcomes of the bind attempts of one start.
BindOutcomes == [1..5 -> {"ok", "fail"}]

\* The Redis server: the value of each key (a string, a hash, or none) and
\* the keys that have a time to live.
RedisNil == "(nil)"
RedisHash == "(hash)"
Keys == ArgValues
EmptyRedis == [store |-> [k \in Keys |-> RedisNil], volatile |-> {}]
\* What the Redis server holds when the process connects to it.
InitialRedis ==
  {EmptyRedis,
   [store |-> [k \in Keys |-> IF k = "a" THEN "b" ELSE RedisNil],
    volatile |-> {}]}

\* index.ts before its first statement, and once the server runs.
MainAtLoad ==
  [pc |-> "load", dbType |-> Unset, connectionString |-> Unset,
   error |-> "", exitCode |-> Unset, stderr |-> << >>]
RunningMessage == "Database MCP server running on stdio"
FatalMessage(error) == "Fatal error: " \o error

\* A resolution that lower-cases the value before comparing it.
ResolveReadOnly_IgnoreCase(value) == value \notin {"false", "FALSE", "0"}

\* constructor: this.readOnly = env !== "false" && env !== "0"
ResolveReadOnly(value) == value # "false" /\ value # "0"

\* Environments the serving process was started with: DB_TYPE names the
\* backend, and an LDAP backend is used anonymously or with a bind DN.
ServingEnvs(type) ==
  LET e == [NoEnv EXCEPT !["DB_TYPE"] =
              CHOOSE t \in DbTypeValues : t = toLowerCase(t) /\ AdapterClass(t) = type]
  IN  IF type = "LDAPAdapter"
      THEN {e, [e EXCEPT !["LDAP_BIND_DN"] = EnvValue("LDAP_BIND_DN"),
                         !["LDAP_BIND_PASSWORD"] = EnvValue("LDAP_BIND_PASSWORD")]}
      ELSE {e}
\* No directory is looked at, no folder tool has answered.
NoFolders == [entries |-> << >>, response |-> << >>]
\* No driver handle is looked at.
NoHandle == [kind |-> "none"]

\* index.ts once server.start() has returned.
MainRunning(e) ==
  [pc |-> "running", dbType |-> DbType(e),
   connectionString |-> ConnectionString(e),
   error |-> "", exitCode |-> Unset, stderr |-> <<RunningMessage>>]

\* The process once index.ts has created the adapter, constructed the server
\* and started it.
Init ==
  /\ READ_ONLY_MODE \in EnvValues
  /\ adapterType \in AdapterTypes
  /\ env \in ServingEnvs(adapterType)
  /\ main = MainRunning(env)
  /\ readOnly = ResolveReadOnly(READ_ONLY_MODE)
  /\ isRedis = (adapterType = "RedisAdapter")
  /\ isMongo = (adapterType = "MongoAdapter")
  /\ isLDAP = (adapterType = "LDAPAdapter")
  /\ inv = [i \in Invocations |-> Idle]
  /\ listed = << >>
  /\ redis \in IF adapterType = "RedisAdapter" THEN InitialRedis ELSE {EmptyRedis}
  /\ ldap = IF adapterType = "LDAPAdapter"
            THEN CreateLDAPAdapter(env, [j \in 1..5 |-> "ok"])
            ELSE NewLDAPAdapter
  /\ folders = NoFolders
  /\ handle = NoHandle

(***************************************************************************)
(* The CallTool handler                                                    *)
(***************************************************************************)
\* this.adapter of a server that has no adapter.
NoAdapter == "null"
NoAdapterMessage == "Database adapter not initialized"
ReadOnlyMessage ==
  "Server is running in read-only mode. Write operations are disabled."
SelectOnlyMessage == "Query tool only supports SELECT statements"
OnlyAvailableMessage(backend) == "This tool is only available for " \o backend
UnknownToolMessage(name) == "Unknown tool: " \o name
\* TypeError of `const { p } = args` when args is undefined.
DestructureMessage(p) ==
  "Cannot destructure property '" \o p \o "' of 'args' as it is undefined."
\* TypeError of sql.trim() when sql is undefined.
TrimMessage == "Cannot read properties of undefined (reading 'trim')"

Throw(message) == [kind |-> "throw", message |-> message, method |-> ""]
Call(method) == [kind |-> "call", message |-> "", method |-> method]

\* A checkReadOnly() that never throws.
checkReadOnly_NeverThrows == FALSE

\* checkReadOnly(): TRUE when it throws.
checkReadOnly == readOnly

\* Every case starts with this.checkReadOnly().
Gated_All(name) == TRUE

\* The case of the tool starts with this.checkReadOnly().
Gated(name) == Cases[name].checkReadOnly

\* A guard that lets the tool pass on every backend that has native tools.
BackendFlag_AnyNative(backend) == isRedis \/ isMongo \/ isLDAP

\* A server whose constructor does not set the adapter flags.
BackendFlag_NeverSet(backend) == FALSE

\* The flag tested by a case's `if (!this.isX)` guard.
BackendFlag(backend) ==
  CASE backend = "Redis" -> isRedis
    [] backend = "MongoDB" -> isMongo
    [] backend = "LDAP" -> isLDAP

\* The statement check of the query case; TRUE when the statement is refused.
QueryRejects(sql) == ~startsWith(toUpperCase(trim(sql)), "SELECT")

\* A switch whose native cases test the adapter flag before the read-only
\* gate.
Dispatch_GuardFirst(name, args) ==
  IF name \notin CaseNames THEN Throw(UnknownToolMessage(name))
  ELSE
    LET c == Cases[name] IN
    IF c.onlyFor # "none" /\ ~BackendFlag(c.onlyFor)
      THEN Throw(OnlyAvailableMessage(c.onlyFor))
    ELSE IF Gated(name) /\ checkReadOnly THEN Throw(ReadOnlyMessage)
    ELSE IF c.destructures # "" /\ ~args.defined
      THEN Throw(DestructureMessage(c.destructures))
    ELSE IF name = "query" /\ "sql" \notin args.props THEN Throw(TrimMessage)
    ELSE IF name = "query" /\ QueryRejects(args.sql)
      THEN Throw(SelectOnlyMessage)
    ELSE Call(c.method)

\* The switch, up to the first await: the error thrown or the adapter method
\* called.
Dispatch(name, args) ==
  IF name \notin CaseNames THEN Throw(UnknownToolMessage(name))
  ELSE
    LET c == Cases[name] IN
    IF Gated(name) /\ checkReadOnly THEN Throw(ReadOnlyMessage)
    ELSE IF c.onlyFor # "none" /\ ~BackendFlag(c.onlyFor)
      THEN Throw(OnlyAvailableMessage(c.onlyFor))
    ELSE IF c.destructures # "" /\ ~args.defined
      THEN Throw(DestructureMessage(c.destructures))
    ELSE IF name = "query" /\ "sql" \notin args.props THEN Throw(TrimMessage)
    ELSE IF name = "query" /\ QueryRejects(args.sql)
      THEN Throw(SelectOnlyMessage)
    ELSE Call(c.method)

\* A catch block that leaves out isError.
ErrorResponse_NoFlag(message) ==
  [content |-> <<[type |-> "text", text |-> "Error: " \o message]>>]

\* catch (error): { content: [{type, text: `Error: ${message}`}], isError: true }
ErrorResponse(message) ==
  [content |-> <<[type |-> "text", text |-> "Error: " \o message]>>,
   isError |-> TRUE]
\* return { content: [{type, text: JSON.stringify(result, null, 2)}] }
SuccessResponse(name) ==
  [content |-> <<[type |-> "text", text |-> "{ " \o name \o " result }"]>>]

\* A handler without the catch block: the error is not answered.
Responded_ErrorLost(s, e, r) ==
  IF e = << >>
  THEN [s EXCEPT !.pc = "responded", !.response = Append(@, r)]
  ELSE s

\* The handler returns response r for invocation s; e is the error the catch
\* block caught, << >> when r is the result of the adapter call.
Responded(s, e, r) ==
  [s EXCEPT !.pc = "responded", !.errors = @ \o e, !.response = Append(@, r)]

(***************************************************************************)
(* The adapters, as far as the handler sees them                           *)
(***************************************************************************)
\* The interface methods of RedisAdapter that only throw: the message, ""
\* for any other method.
RedisAdapterThrows(method) ==
  CASE method = "query" ->
         "Redis does not support SQL queries. Use Redis-specific methods instead."
    [] method = "execute" ->
         "Redis does not support SQL execution. Use Redis-specific methods instead."
    [] method = "explainQuery" -> "Redis does not support EXPLAIN queries."
    [] method = "describeView" -> "Redis does not support views."
    [] OTHER -> ""
\* The same for MongoAdapter.
MongoAdapterThrows(method) ==
  CASE method = "query" ->
         "MongoDB does not support SQL queries. Use MongoDB-specific methods instead."
    [] method = "execute" ->
         "MongoDB does not support SQL execution. Use MongoDB-specific methods instead."
    [] method = "explainQuery" ->
         "MongoDB does not support EXPLAIN queries in SQL format."
    [] method = "describeView" -> "MongoDB does not support views."
    [] OTHER -> ""
\* The same for LDAPAdapter.
LDAPAdapterThrows(method) ==
  CASE method = "query" ->
         "LDAP does not support SQL queries. Use LDAP-specific methods instead."
    [] method = "execute" ->
         "LDAP does not support SQL execution. Use LDAP-specific methods instead."
    [] method = "explainQuery" -> "LDAP does not support EXPLAIN queries."
    [] method = "describeView" -> "LDAP does not support views."
    [] OTHER -> ""
AdapterThrows(type, method) ==
  CASE type = "RedisAdapter" -> RedisAdapterThrows(method)
    [] type = "MongoAdapter" -> MongoAdapterThrows(method)
    [] type = "LDAPAdapter" -> LDAPAdapterThrows(method)
    [] OTHER -> ""

\* Interface methods that return a constant without using the client.
RedisAdapterConstant ==
  {"listSchemas", "getIndexes", "getForeignKeys", "listViews"}
MongoAdapterConstant == {"listSchemas", "getForeignKeys", "listViews"}
LDAPAdapterConstant ==
  {"listSchemas", "getIndexes", "getForeignKeys", "getTableSize", "listViews"}
AdapterConstant(type, method) ==
  \/ type = "RedisAdapter" /\ method \in RedisAdapterConstant
  \/ type = "MongoAdapter" /\ method \in MongoAdapterConstant
  \/ type = "LDAPAdapter" /\ method \in LDAPAdapterConstant

\* Adapter methods that write through the native client.
RedisAdapterWrites == {"set", "del", "expire", "hset"}
MongoAdapterWrites ==
  {"insertOne", "insertMany", "updateOne", "updateMany", "deleteOne",
   "deleteMany", "createIndex"}
LDAPAdapterWrites == {"add", "modify", "delete"}
NativeWrites == RedisAdapterWrites \cup MongoAdapterWrites \cup LDAPAdapterWrites

\* The message of an error raised by the driver.
DriverErrorMessage == "ECONNREFUSED"

\* What the adapter method hands to its driver: for the SQL adapters the
\* statement text (query and execute pass sql through, explainQuery puts
\* EXPLAIN before it, the introspection methods send a fixed SELECT); for the
\* other adapters the native command.
DriverStatements(type, method, args) ==
  IF AdapterThrows(type, method) # "" \/ AdapterConstant(type, method)
    THEN << >>
  ELSE IF type \in SqlAdapters
    THEN CASE method \in {"query", "execute"} -> <<args.sql>>
           [] method = "explainQuery" -> <<<<"EXPLAIN">> \o args.sql>>
           [] OTHER -> <<<<"SELECT">>>>
  ELSE <<<<method>>>>

\* Position k of s is the first word of one of the `;`-separated statements
\* of s: only white space lies between it and the previous `;` (or the start).
IsStatementHead(s, k) ==
  /\ s[k] \notin {" ", ";"}
  /\ \A j \in 1..(k - 1) : (\A m \in j..(k - 1) : s[m] # ";") => s[j] = " "
StatementHeads(s) == {k \in 1..Len(s) : IsStatementHead(s, k)}

\* The statements of the text s the database runs.  pool.query(text) of pg
\* sends the text as a simple query: the server runs all its statements.
\* pool.execute(text) of mysql2 and db.prepare(text) of better-sqlite3 prepare
\* one statement: a text with more than one is refused and nothing runs.
DriverRuns(type, s) ==
  IF type = "PostgresAdapter" \/ Cardinality(StatementHeads(s)) <= 1
  THEN StatementHeads(s) ELSE {}

\* The text s, given to the driver of the adapter, changes data: a statement
\* that runs begins with DELETE, or s is a native write command.
IsDataModifying(type, s) ==
  IF type \in SqlAdapters
  THEN \E k \in DriverRuns(type, s) : toUpperCase(s)[k] = "DELETE"
  ELSE Len(s) = 1 /\ s[1] \in NativeWrites

\* How the awaited adapter call can end: "ok" or "fail".
AdapterOutcomes(type, method) ==
  IF AdapterThrows(type, method) # "" THEN {"fail"}
  ELSE IF AdapterConstant(type, method) \/ method = "authenticate" THEN {"ok"}
  ELSE {"ok", "fail"}

AdapterErrorMessage(type, method) ==
  IF AdapterThrows(type, method) # "" THEN AdapterThrows(type, method)
  ELSE DriverErrorMessage

(***************************************************************************)
(* The Redis server and the LDAP client behind the adapters                *)
(***************************************************************************)
\* A set that writes only a key that does not exist yet.
RedisApply_SetIfAbsent(method, args, r) ==
  LET key == Arg(args, "key") IN
  IF key \notin Keys THEN r
  ELSE CASE method = "set" /\ Arg(args, "value") # Unset /\ r.store[key] = RedisNil ->
              [store |-> [r.store EXCEPT ![key] = Arg(args, "value")],
               volatile |-> r.volatile]
         [] method = "del" ->
              [store |-> [r.store EXCEPT ![key] = RedisNil],
               volatile |-> r.volatile \ {key}]
         [] OTHER -> r

\* The server after the command of the adapter method: set writes through
\* client.setEx when ttl is given and through client.set otherwise, del
\* removes the key, expire puts a time to live on an existing key, hset
\* makes the key a hash.
RedisApply(method, args, r) ==
  LET key == Arg(args, "key") IN
  IF key \notin Keys THEN r
  ELSE CASE method = "set" /\ Arg(args, "value") # Unset ->
              [store |-> [r.store EXCEPT ![key] = Arg(args, "value")],
               volatile |-> IF Truthy(Arg(args, "ttl"))
                            THEN r.volatile \cup {key}
                            ELSE r.volatile \ {key}]
         [] method = "del" ->
              [store |-> [r.store EXCEPT ![key] = RedisNil],
               volatile |-> r.volatile \ {key}]
         [] method = "expire" /\ r.store[key] # RedisNil ->
              [r EXCEPT !.volatile = @ \cup {key}]
         [] method = "hset" ->
              [r EXCEPT !.store[key] = RedisHash]
         [] OTHER -> r
\* The command is refused because the key holds a value of another type.
RedisWrongType(method, args, r) ==
  LET key == Arg(args, "key") IN
  /\ key \in Keys
  /\ \/ method = "get" /\ r.store[key] = RedisHash
     \/ method = "hset" /\ r.store[key] \notin {RedisNil, RedisHash}
\* What client.get(key) resolves to.
RedisGet(args, r) ==
  IF Arg(args, "key") \in Keys THEN r.store[Arg(args, "key")] ELSE RedisNil

\* return { content: [{type, text: JSON.stringify({ key, value }, null, 2)}] }
GetResponse(key, value) ==
  [content |-> <<[type |-> "text",
                  text |-> "{ key: " \o key \o ", value: " \o value \o " }"]>>]
\* text: JSON.stringify({ dn, authenticated }, null, 2)
AuthenticateResponse(dn, authenticated) ==
  [content |-> <<[type |-> "text",
                  text |-> "{ dn: " \o dn \o ", authenticated: "
                           \o authenticated \o " }"]>>]

\* Positions of an invocation that awaits a call of the driver.
Awaits == {"awaiting", "unbinding", "rebinding"}
\* Adapter methods of LDAPAdapter other than authenticate that use the client.
LDAPOperations ==
  {"search", "add", "modify", "delete", "compare",
   "searchFolderStructure", "listFolders"}

\* LDAPAdapter.authenticate, one awaited call at a time: bind(dn, password),
\* unbind(), bind(this.bindDN, this.bindPassword) when both are stored.  The
\* awaited call ends "ok", "fail" (the directory refuses: the connection is
\* left anonymous) or "error" (no answer: the connection is as before).  Any
\* failure is caught and authenticate returns false.
Authenticate(s, a, outcome) ==
  LET dn == Arg(s.args, "dn")
      returns(b) == Responded(s, << >>, AuthenticateResponse(dn, b))
      refused == IF outcome = "fail" THEN [a EXCEPT !.bound = Anonymous] ELSE a
  IN
  CASE s.pc = "awaiting" ->
         IF outcome = "ok"
         THEN [inv |-> [s EXCEPT !.pc = "unbinding"],
               ldap |-> [a EXCEPT !.bound = IF Truthy(dn) THEN dn ELSE Anonymous]]
         ELSE [inv |-> returns("false"), ldap |-> refused]
    [] s.pc = "unbinding" ->
         IF outcome # "ok" THEN [inv |-> returns("false"), ldap |-> a]
         ELSE IF Truthy(a.bindDN) /\ Truthy(a.bindPassword)
           THEN [inv |-> [s EXCEPT !.pc = "rebinding"],
                 ldap |-> [a EXCEPT !.bound = Anonymous]]
         ELSE [inv |-> returns("true"), ldap |-> [a EXCEPT !.bound = Anonymous]]
    [] s.pc = "rebinding" ->
         IF outcome = "ok"
         THEN [inv |-> returns("true"), ldap |-> [a EXCEPT !.bound = a.bindDN]]
         ELSE [inv |-> returns("false"), ldap |-> refused]

\* The adapter method sends requests on the connection of the LDAP client.
\* The directory answers the requests of one connection in the order it
\* received them; pending is that order, by invocation.
UsesLDAPClient(type, method) ==
  type = "LDAPAdapter" /\ method \in LDAPOperations \cup {"authenticate"}

\* How the call awaited by invocation s can end.
AwaitOutcomes(type, s, r) ==
  IF type = "LDAPAdapter" /\ s.calls[1] = "authenticate"
    THEN IF s.pc = "unbinding" THEN {"ok", "error"} ELSE {"ok", "fail", "error"}
  ELSE IF type = "RedisAdapter" /\ RedisWrongType(s.calls[1], s.args, r)
    THEN {"fail"}
  ELSE AdapterOutcomes(type, s.calls[1])

\* The awaited adapter call of invocation s ends as outcome: the handler
\* returns the result, or the catch block returns the error response.
Settle(type, s, r, a, outcome) ==
  LET method == s.calls[1]
      m == AdapterErrorMessage(type, method)
  IN
  IF type = "LDAPAdapter" /\ method = "authenticate"
    THEN Authenticate(s, a, outcome) @@ [redis |-> r]
  ELSE IF outcome # "ok"
    THEN [inv |-> Responded(s, <<m>>, ErrorResponse(m)), redis |-> r, ldap |-> a]
  ELSE IF type = "RedisAdapter"
    THEN [inv |-> Responded(s, << >>,
                    IF method = "get"
                    THEN GetResponse(Arg(s.args, "key"), RedisGet(s.args, r))
                    ELSE SuccessResponse(s.name)),
          redis |-> RedisApply(method, s.args, r), ldap |-> a]
  ELSE IF type = "LDAPAdapter" /\ method \in LDAPOperations
    THEN [inv |-> [Responded(s, << >>, SuccessResponse(s.name))
                     EXCEPT !.ranAs = Append(@, a.bound)],
          redis |-> r, ldap |-> a]
  ELSE [inv |-> Responded(s, << >>, SuccessResponse(s.name)),
        redis |-> r, ldap |-> a]

(***************************************************************************)
(* Actions                                                                 *)
(***************************************************************************)
\* A CallTool request arrives at the running server.
Arrive(i, name, args) ==
  /\ main.pc = "running"
  /\ inv[i].pc = "idle"
  /\ inv' = [inv EXCEPT ![i] = [Idle EXCEPT !.pc = "received",
                                            !.name = name, !.args = args]]
  /\ UNCHANGED <<server, process, listed, backends>>

\* The handler runs up to its first await.  Without an adapter it throws
\* before the try block and the error leaves the handler.  Inside the try
\* block it throws, and the catch block returns the error response, or it
\* calls the adapter method and suspends.
CallTool(i) ==
  /\ inv[i].pc = "received"
  /\ LET r == Dispatch(inv[i].name, inv[i].args) IN
       /\ inv' = [inv EXCEPT ![i] =
                    IF adapterType = NoAdapter
                    THEN [@ EXCEPT !.pc = "threw",
                                   !.errors = Append(@, NoAdapterMessage)]
                    ELSE IF r.kind = "throw"
                    THEN Responded(@, <<r.message>>, ErrorResponse(r.message))
                    ELSE [@ EXCEPT !.pc = "awaiting",
                                   !.calls = Append(@, r.method),
                                   !.driver = @ \o DriverStatements(adapterType,
                                                   r.method, inv[i].args)]]
       /\ ldap' = IF /\ adapterType # NoAdapter
                     /\ r.kind = "call"
                     /\ UsesLDAPClient(adapterType, r.method)
                  THEN [ldap EXCEPT !.pending = Append(@, i)]
                  ELSE ldap
  /\ UNCHANGED <<server, process, listed, redis, folders, handle>>

\* The call an invocation awaits settles: the adapter method goes on to its
\* next call, or it returns and the handler returns the result, or the catch
\* block returns the error response.
AdapterReturn(i) ==
  /\ inv[i].pc \in Awaits
  /\ UsesLDAPClient(adapterType, inv[i].calls[1]) => Head(ldap.pending) = i
  /\ \E outcome \in AwaitOutcomes(adapterType, inv[i], redis) :
       LET after == Settle(adapterType, inv[i], redis, ldap, outcome) IN
       /\ inv' = [inv EXCEPT ![i] = after.inv]
       /\ redis' = after.redis
       /\ ldap' = IF UsesLDAPClient(adapterType, inv[i].calls[1])
                  THEN [after.ldap EXCEPT !.pending =
                          IF after.inv.pc \in Awaits
                          THEN Append(Tail(@), i) ELSE Tail(@)]
                  ELSE after.ldap
  /\ UNCHANGED <<server, process, listed, folders, handle>>

\* The response is written to the transport; the request is over.
Send(i) ==
  /\ inv[i].pc = "responded"
  /\ inv' = [inv EXCEPT ![i] = Idle]
  /\ UNCHANGED <<server, process, listed, backends>>

\* A handler whose catalog depends on the calls in progress.
ListToolsRequest_Stateful ==
  /\ main.pc = "running"
  /\ LET busy == \E i \in Invocations : inv[i].pc = "responded"
         answer == [tools |-> ListTools(isRedis \/ busy, isMongo, isLDAP),
                    during |-> {inv[i].pc : i \in Invocations}]
     IN  listed' = IF listed = << >> THEN <<answer>> ELSE <<listed[1], answer>>
  /\ UNCHANGED <<server, process, inv, backends>>

\* A ListTools request is answered: the handler does not await.  tools is
\* what it returns, during the positions of the CallTool requests at that
\* moment.
ListToolsRequest ==
  /\ main.pc = "running"
  /\ LET answer == [tools |-> ListTools(isRedis, isMongo, isLDAP),
                    during |-> {inv[i].pc : i \in Invocations}]
     IN  listed' = IF listed = << >> THEN <<answer>> ELSE <<listed[1], answer>>
  /\ UNCHANGED <<server, process, inv, backends>>

\* The time to live of key k elapses: the Redis server drops the key.
Expire(k) ==
  /\ k \in redis.volatile
  /\ redis' = [store |-> [redis.store EXCEPT ![k] = RedisNil],
               volatile |-> redis.volatile \ {k}]
  /\ UNCHANGED <<server, process, inv, listed, ldap, folders, handle>>

\* One request at a time, with every tool name and argument shape.
Request(i) ==
  /\ \A j \in Invocations : inv[j].pc = "idle"
  /\ \E name \in ToolNames : \E args \in ArgsFor(name) : Arrive(i, name, args)

Next ==
  \/ \E i \in Invocations :
       \/ Request(i)
       \/ CallTool(i)
       \/ AdapterReturn(i)
       \/ Send(i)
  \/ \E k \in Keys : Expire(k)

Spec == Init /\ [][Next]_vars

(***************************************************************************)
(* Interleaved invocations                                                 *)
(***************************************************************************)
\* Tools and arguments of the interleaved runs: one tool of each shape.
ConcNames ==
  {"query", "execute_sql", "redis_get", "redis_set", "no_such_tool"}
ConcArgs(name) ==
  {UndefinedArgs, ObjectArgs(PropertiesOf(name), <<"SELECT">>)}

ConcInit == Init /\ READ_ONLY_MODE \in {Unset, "false"}

ConcRequest(i) ==
  \E name \in ConcNames : \E args \in ConcArgs(name) : Arrive(i, name, args)

ConcNext ==
  \/ \E i \in Invocations :
       \/ ConcRequest(i)
       \/ CallTool(i)
       \/ AdapterReturn(i)
       \/ Send(i)
  \/ \E k \in Keys : Expire(k)

ConcSpec == ConcInit /\ [][ConcNext]_vars

\* Every request that arrived is handled, and every backend call made
\* completes or fails.
FairConcSpec ==
  /\ ConcSpec
  /\ \A i \in Invocations : WF_vars(CallTool(i)) /\ WF_vars(AdapterReturn(i))

(***************************************************************************)
(* Start of the process: index.ts from its first statement                 *)
(***************************************************************************)
\* Environments of a start: up to MaxEnvSet connection-string variables set,
\* to a value or to the empty string, with any DB_TYPE; or DB_TYPE=ldap with
\* any of the LDAP bind variables set.
StartEnvs ==
  UNION {{[k \in EnvKeys |->
             IF k = "DB_TYPE" THEN t
             ELSE IF k \in set \ empty THEN EnvValue(k)
             ELSE IF k \in set THEN "" ELSE Unset] :
            t \in DbTypeValues, empty \in SUBSET set} :
         set \in {s \in SUBSET ConnectionKeys : Cardinality(s) <= MaxEnvSet}}
  \cup
  {[k \in EnvKeys |->
      IF k = "DB_TYPE" THEN "ldap"
      ELSE IF k \in set THEN EnvValue(k) ELSE Unset] : set \in SUBSET LdapKeys}

StartInit ==
  /\ READ_ONLY_MODE \in {Unset, "false"}
  /\ env \in StartEnvs
  /\ main = MainAtLoad
  /\ adapterType = NoAdapter
  /\ readOnly = FALSE
  /\ isRedis = FALSE
  /\ isMongo = FALSE
  /\ isLDAP = FALSE
  /\ inv = [i \in Invocations |-> Idle]
  /\ listed = << >>
  /\ redis = EmptyRedis
  /\ ldap = NewLDAPAdapter
  /\ folders = NoFolders
  /\ handle = NoHandle

\* A module body that refuses to go on without a connection-string key.
Load_RequiresKey ==
  /\ main.pc = "load"
  /\ main' = IF \A k \in ConnectionKeys : ConnectionString(env) # env[k]
             THEN [main EXCEPT !.pc = "exited", !.exitCode = "1",
                               !.error = "missing connection string",
                               !.stderr = Append(@, FatalMessage("missing connection string"))]
             ELSE [main EXCEPT !.pc = "create", !.dbType = DbType(env),
                               !.connectionString = ConnectionString(env)]
  /\ UNCHANGED <<server, env, inv, listed, backends>>

\* The module body: dbType and connectionString are computed, main() is
\* called and awaits createAdapter().
Load ==
  /\ main.pc = "load"
  /\ main' = [main EXCEPT !.pc = "create", !.dbType = DbType(env),
                          !.connectionString = ConnectionString(env)]
  /\ UNCHANGED <<server, env, inv, listed, backends>>

\* A catch block that logs the error and goes on to start the server.
Fatal_GoesOn(m, error) ==
  [m EXCEPT !.pc = "start", !.error = error,
            !.stderr = Append(@, FatalMessage(error))]

\* catch (error) of main: console.error("Fatal error:", error); process.exit(1)
Fatal(m, error) ==
  [m EXCEPT !.pc = "exited", !.error = error, !.exitCode = "1",
            !.stderr = Append(@, FatalMessage(error))]

\* createAdapter() settles.  When it returns an adapter the constructor of
\* DatabaseMCPServer runs and server.start() is awaited; when it throws, the
\* catch block of main logs the error and exits.
CreateAdapter ==
  /\ main.pc = "create"
  /\ LET class == AdapterClass(main.dbType) IN
     \E outcome \in CreateOutcomes(class) : \E binds \in BindOutcomes :
       LET a == IF class = "LDAPAdapter"
                THEN CreateLDAPAdapter(env, binds) ELSE NewLDAPAdapter
           error == IF class = NoAdapter THEN UnsupportedMessage(main.dbType)
                    ELSE IF class = "LDAPAdapter" THEN a.error
                    ELSE IF outcome = "fail" THEN CreateErrorMessage(class)
                    ELSE ""
       IN  /\ ldap' = a
           /\ IF error # ""
              THEN /\ main' = Fatal(main, error)
                   /\ UNCHANGED <<adapterType, readOnly, isRedis, isMongo, isLDAP>>
              ELSE /\ main' = [main EXCEPT !.pc = "start"]
                   /\ adapterType' = class
                   /\ isRedis' = (class = "RedisAdapter")
                   /\ isMongo' = (class = "MongoAdapter")
                   /\ isLDAP' = (class = "LDAPAdapter")
                   /\ readOnly' = ResolveReadOnly(READ_ONLY_MODE)
  /\ UNCHANGED <<READ_ONLY_MODE, env, inv, listed, redis, folders, handle>>

StartErrorMessage == "transport closed"
\* server.start(): the transport is connected and the server says it runs, or
\* the connect fails and the catch block of main exits.
Start ==
  /\ main.pc = "start"
  /\ \E outcome \in {"ok", "fail"} :
       main' = IF outcome = "ok"
               THEN [main EXCEPT !.pc = "running",
                                 !.stderr = Append(@, RunningMessage)]
               ELSE Fatal(main, StartErrorMessage)
  /\ UNCHANGED <<server, env, inv, listed, backends>>

StartNext ==
  \/ Load
  \/ CreateAdapter
  \/ Start
  \/ ListToolsRequest

StartSpec == StartInit /\ [][StartNext]_vars
\* index.ts runs to the end: no step of it waits for ever.
FairStartSpec ==
  StartSpec /\ WF_vars(Load) /\ WF_vars(CreateAdapter) /\ WF_vars(Start)

(***************************************************************************)
(* The serving process, with argument values and a changing environment    *)
(***************************************************************************)
ServeNames ==
  {"query", "redis_get", "redis_set", "redis_del", "redis_expire",
   "ldap_search", "ldap_authenticate", "no_such_tool"}
\* No arguments, or the required or all properties of the tool, with every
\* key (or DN) and value.
ServeArgs(name) ==
  {UndefinedArgs} \cup
  {[ObjectArgs(ps, <<"SELECT">>) EXCEPT
      !.vals = [p \in ps |-> IF p \in {"key", "dn"} THEN k
                             ELSE IF p = "value" THEN v
                             ELSE DefaultValue(p)]] :
     ps \in {PropertiesOf(name), RequiredOf(name)},
     k \in ArgValues, v \in ArgValues}

ServeInit == Init /\ READ_ONLY_MODE \in {Unset, "false"}

ServeRequest(i) ==
  /\ \A j \in Invocations : inv[j].pc = "idle"
  /\ \E name \in ServeNames : \E args \in ServeArgs(name) : Arrive(i, name, args)

\* A server that resolves its policy again when the variable changes.
SetEnv_Resolves(value) ==
  /\ READ_ONLY_MODE # value
  /\ READ_ONLY_MODE' = value
  /\ readOnly' = ResolveReadOnly(value)
  /\ UNCHANGED <<adapterType, isRedis, isMongo, isLDAP, process,
                 inv, listed, backends>>

\* Code of the process, or its host, assigns process.env.READ_ONLY_MODE.
SetEnv(value) ==
  /\ READ_ONLY_MODE # value
  /\ READ_ONLY_MODE' = value
  /\ UNCHANGED <<adapterType, readOnly, isRedis, isMongo, isLDAP, process,
                 inv, listed, backends>>

ServeNext ==
  \/ \E i \in Invocations :
       \/ ServeRequest(i)
       \/ CallTool(i)
       \/ AdapterReturn(i)
       \/ Send(i)
  \/ ListToolsRequest
  \/ \E k \in Keys : Expire(k)
  \/ \E value \in {"false", "true"} : SetEnv(value)

ServeSpec == ServeInit /\ [][ServeNext]_vars

(***************************************************************************)
(* Interleaved invocations on the shared LDAP client                       *)
(***************************************************************************)
LdapNames == {"ldap_search", "ldap_authenticate"}
LdapInit ==
  /\ Init
  /\ adapterType = "LDAPAdapter"
  /\ READ_ONLY_MODE = Unset

LdapRequest(i) ==
  \E name \in LdapNames : \E args \in ServeArgs(name) : Arrive(i, name, args)

LdapNext ==
  \E i \in Invocations :
    \/ LdapRequest(i)
    \/ CallTool(i)
    \/ AdapterReturn(i)
    \/ Send(i)

LdapSpec == LdapInit /\ [][LdapNext]_vars

(***************************************************************************)
(* The folder tools of LDAPAdapter                                         *)
(***************************************************************************)
MaxFound == 3
\* A DN as dn.split(",") sees it: the sequence of its comma-separated parts,
\* each an attribute and a value.  The DNs of the directory looked at.
DirectoryDNs ==
  LET part(attr, value) == [attr |-> attr, value |-> value] IN
  { <<part("DC", "x")>>,
    <<part("OU", "a"), part("DC", "x")>>,
    <<part("OU", "b"), part("DC", "x")>>,
    <<part("OU", "b"), part("OU", "a"), part("DC", "x")>>,
    <<part("CN", "c"), part("OU", "b"), part("OU", "a"), part("DC", "x")>>,
    <<part("CN", "c"), part("DC", "y")>> }
\* What this.search(searchBase, filter, {scope: "sub"}) can return: entries
\* with distinct DNs, in any order, with or without the entries above them.
FoundEntries ==
  {s \in UNION {[1..n -> DirectoryDNs] : n \in 0..MaxFound} :
     \A j, k \in 1..Len(s) : s[j] = s[k] => j = k}
\* The depths a caller passes; 10 is the default of the handler.
Depths == {-1, 0, 1, 2, 3, 10}

\* parts.join(","): the DN as a string.
RECURSIVE Join(_)
Join(parts) ==
  IF parts = << >> THEN ""
  ELSE parts[1].attr \o "=" \o parts[1].value
       \o (IF Len(parts) > 1 THEN "," \o Join(Tail(parts)) ELSE "")
\* for (const part of parts): the name and type of the entry.  The first
\* OU= or CN= part ends the loop; a DC= part gives the name while there is
\* none.
RECURSIVE NameAndType(_, _, _)
NameAndType(parts, name, type) ==
  IF parts = << >> THEN [name |-> name, type |-> type]
  ELSE IF parts[1].attr \in {"OU", "CN"}
    THEN [name |-> parts[1].value, type |-> parts[1].attr]
  ELSE IF parts[1].attr = "DC" /\ name = ""
    THEN NameAndType(Tail(parts), parts[1].value, "DC")
  ELSE NameAndType(Tail(parts), name, type)

\* buildTree returned null.
NullNode ==
  [null |-> TRUE, dn |-> "", name |-> "", type |-> "", attributes |-> Unset,
   children |-> << >>]
\* buildTree(entry, currentDepth) for the entry with DN dn among entries:
\* entry.children are the entries whose DN without its first part is dn, in
\* the order of the map (second pass); children that come back null are
\* filtered out.  children is << >> also when the node has no such key.
RECURSIVE buildTree(_, _, _, _, _)
buildTree(entries, dn, currentDepth, depth, includeEntries) ==
  IF currentDepth >= depth THEN NullNode
  ELSE
    LET children == SelectSeq(entries, LAMBDA e : Len(e) > 1 /\ Tail(e) = dn)
        built == [k \in 1..Len(children) |->
                    buildTree(entries, children[k], currentDepth + 1,
                              depth, includeEntries)]
        named == NameAndType(dn, "", "")
    IN  [null |-> FALSE,
         dn |-> Join(dn),
         name |-> IF named.name # "" THEN named.name ELSE Join(dn),
         type |-> named.type,
         attributes |-> IF includeEntries
                        THEN "attributes of " \o Join(dn) ELSE Unset,
         children |-> SelectSeq(built, LAMBDA n : ~n.null)]

\* A search whose root entries are the entries with one part only.
searchFolderStructure_ShortRoots(entries, base, depth, includeEntries) ==
  LET rootEntries == SelectSeq(entries, LAMBDA e : Len(e) = 1)
      structure == [k \in 1..Len(rootEntries) |->
                      buildTree(entries, rootEntries[k], 0, depth, includeEntries)]
  IN  [base |-> base,
       total_entries |-> Len(entries),
       structure |-> [array |-> Len(structure) # 1, nodes |-> structure]]

\* LDAPAdapter.searchFolderStructure, from the entries the search returned.
\* rootEntries are the entries whose parent DN is not in the map.  structure
\* is the array of the trees of the roots (array), or the one tree itself
\* when there is exactly one root.
searchFolderStructure(entries, base, depth, includeEntries) ==
  LET found == {entries[k] : k \in 1..Len(entries)}
      rootEntries == SelectSeq(entries,
                       LAMBDA e : ~(Len(e) > 1 /\ Tail(e) \in found))
      structure == [k \in 1..Len(rootEntries) |->
                      buildTree(entries, rootEntries[k], 0, depth, includeEntries)]
  IN  [base |-> base,
       total_entries |-> Len(entries),
       structure |-> [array |-> Len(structure) # 1, nodes |-> structure]]

\* collectDNs over the nodes of an array, one after the other: the DN of
\* each node that is not null, then those of its children.
RECURSIVE collectDNs(_)
collectDNs(nodes) ==
  IF nodes = << >> THEN << >>
  ELSE (IF nodes[1].null THEN << >>
        ELSE <<nodes[1].dn>> \o collectDNs(nodes[1].children))
       \o collectDNs(Tail(nodes))

\* LDAPAdapter.listFolders: searchFolderStructure(base, 1, false), then the
\* DNs collected from its structure.
listFolders(entries, base) ==
  collectDNs(searchFolderStructure(entries, base, 1, FALSE).structure.nodes)

\* An LDAP server runs over a directory with these folder entries.
FolderInit ==
  /\ READ_ONLY_MODE = Unset
  /\ adapterType = "LDAPAdapter"
  /\ env \in ServingEnvs(adapterType)
  /\ main = MainRunning(env)
  /\ readOnly = ResolveReadOnly(READ_ONLY_MODE)
  /\ isRedis = FALSE
  /\ isMongo = FALSE
  /\ isLDAP = TRUE
  /\ inv = [i \in Invocations |-> Idle]
  /\ listed = << >>
  /\ redis = EmptyRedis
  /\ ldap = CreateLDAPAdapter(env, [j \in 1..5 |-> "ok"])
  /\ folders \in {[entries |-> s, response |-> << >>] : s \in FoundEntries}
  /\ handle = NoHandle

\* case "ldap_search_folder_structure", from the request to the response.
SearchFolderStructureTool(base, depth, include_entries) ==
  /\ main.pc = "running"
  /\ isLDAP
  /\ folders' = [folders EXCEPT !.response =
                   <<[tool |-> "ldap_search_folder_structure",
                      depth |-> depth,
                      result |-> searchFolderStructure(folders.entries, base,
                                                       depth, include_entries)]>>]
  /\ UNCHANGED <<server, process, inv, listed, redis, ldap, handle>>

\* case "ldap_list_folders", from the request to the response:
\* { base: base || "root", folders, count: folders.length }.
ListFoldersTool(base) ==
  /\ main.pc = "running"
  /\ isLDAP
  /\ LET list == listFolders(folders.entries, base) IN
     folders' = [folders EXCEPT !.response =
                   <<[tool |-> "ldap_list_folders",
                      depth |-> 1,
                      result |-> [base |-> Or(base, "root"), folders |-> list,
                                  count |-> Len(list)]]>>]
  /\ UNCHANGED <<server, process, inv, listed, redis, ldap, handle>>

FolderNext ==
  \/ \E depth \in Depths : \E include_entries \in BOOLEAN :
       SearchFolderStructureTool("DC=x", depth, include_entries)
  \/ \E base \in {"", "DC=x"} : ListFoldersTool(base)

FolderSpec == FolderInit /\ [][FolderNext]_vars

(***************************************************************************)
(* The adapters and their driver handles                                   *)
(***************************************************************************)
MaxOps == 3
LifecycleAdapters ==
  {"PostgresAdapter", "MySQLAdapter", "SQLiteAdapter", "RedisAdapter",
   "MongoAdapter"}
\* Connection strings of a MySQL server: a URL with a database, and the
\* key=value form.
MySQLUrls == {"mysql://localhost:3306/shop", "host=db;database=shop"}
\* MySQLAdapter.parseConnectionString: the defaultDatabase it leaves.  The
\* URL form gives the path without its slash, the key=value form the value
\* of database; a URL without a path, and a text without database, give none.
parseConnectionString(connectionString) ==
  CASE connectionString = "mysql://localhost:3306/shop" -> "shop"
    [] connectionString = "host=db;database=shop" -> "shop"
    [] OTHER -> ""

\* new Database(dbPath, { readonly: ... }): the readonly option.
SQLiteReadonly(value) == value = "true" \/ value # "false"

\* The error of a method that finds its handle (pool, db, client; this.db
\* for a MongoDB collection method) null.
NotInitializedMessage(class) ==
  CASE class = "RedisAdapter" -> "Redis client not initialized"
    [] class = "MongoAdapter" -> "Database not connected"
    [] OTHER -> "Database connection not initialized"
SqliteReadonlyMessage == "attempt to write a readonly database"

\* The adapter when its constructor returns: the handle is set, this.db of
\* MongoAdapter is not; no call was made.  n counts the calls of adapter
\* methods, driver those that reached the driver, last is the latest call.
NewAdapter(class, value, connectionString) ==
  [kind |-> "adapter",
   handle |-> TRUE,
   db |-> FALSE,
   connecting |-> FALSE,
   closing |-> 0,
   readonly |-> class = "SQLiteAdapter" /\ SQLiteReadonly(value),
   defaultDatabase |-> IF class = "MySQLAdapter"
                       THEN parseConnectionString(connectionString) ELSE "",
   n |-> 0,
   driver |-> 0,
   last |-> [tool |-> "", call |-> "", outcome |-> "", dbName |-> Unset]]

\* The methods the tools call on an adapter of the class.
MethodsOf(class) ==
  {Cases[name].method : name \in
     {m \in CaseNames :
        \/ Cases[m].onlyFor = "none"
        \/ Cases[m].onlyFor = "Redis" /\ class = "RedisAdapter"
        \/ Cases[m].onlyFor = "MongoDB" /\ class = "MongoAdapter"}}
\* The methods with a schema parameter.
SchemaMethods ==
  {"listTables", "describeTable", "getIndexes", "getForeignKeys",
   "getTableSize", "listViews", "describeView", "searchTables",
   "getTableStats"}

\* The schema a case of the handler passes to the adapter: list_tables and
\* list_views pass args?.schema || "public", the destructuring cases pass
\* "public" when schema is undefined.
SchemaParam(name, args) ==
  IF Cases[name].method \notin SchemaMethods THEN Unset
  ELSE IF name \in {"list_tables", "list_views"}
    THEN Or(Arg(args, "schema"), "public")
  ELSE IF Arg(args, "schema") = Unset THEN "public"
  ELSE Arg(args, "schema")

\* An adapter whose every method tests the handle the constructor set, the
\* collection methods of MongoAdapter too.
AdapterCall_TestsClient(h, class, tool, method, schema, sql, outcome) ==
  LET called == [h EXCEPT !.n = @ + 1,
                          !.last = [tool |-> tool, call |-> method,
                                    outcome |-> "ok", dbName |-> Unset]]
  IN  IF AdapterThrows(class, method) # ""
        THEN [called EXCEPT !.last.outcome = AdapterThrows(class, method)]
      ELSE IF AdapterConstant(class, method) THEN called
      ELSE IF ~h.handle
        THEN [called EXCEPT !.last.outcome = NotInitializedMessage(class)]
      ELSE [called EXCEPT !.driver = @ + 1, !.last.outcome = outcome]

\* A call of an adapter method, as one step: it throws what the method
\* throws for the class, returns its constant, throws the not-initialized
\* error when the handle is null, or calls the driver, which answers with
\* outcome.  MySQL methods look in schema || this.defaultDatabase, the
\* Postgres methods in schema (default "public"); a better-sqlite3 database
\* opened readonly refuses a statement that writes.
AdapterCall(h, class, tool, method, schema, sql, outcome) ==
  LET called == [h EXCEPT !.n = @ + 1,
                          !.last = [tool |-> tool, call |-> method,
                                    outcome |-> "ok", dbName |-> Unset]]
      guard == IF class = "MongoAdapter" THEN h.db ELSE h.handle
      dbName == IF method \notin SchemaMethods THEN Unset
                ELSE IF class = "MySQLAdapter" THEN Or(schema, h.defaultDatabase)
                ELSE IF class = "PostgresAdapter" /\ schema = Unset THEN "public"
                ELSE schema
      refused == /\ class = "SQLiteAdapter" /\ h.readonly
                 /\ method = "execute" /\ IsDataModifying(class, sql)
  IN  IF AdapterThrows(class, method) # ""
        THEN [called EXCEPT !.last.outcome = AdapterThrows(class, method)]
      ELSE IF AdapterConstant(class, method) THEN called
      ELSE IF ~guard
        THEN [called EXCEPT !.last.outcome = NotInitializedMessage(class)]
      ELSE [called EXCEPT !.driver = @ + 1,
                          !.last.dbName = dbName,
                          !.last.outcome = IF refused THEN SqliteReadonlyMessage
                                           ELSE outcome]

\* createAdapter has constructed the adapter; for Redis and MongoDB it is
\* about to await connect(), for the SQL adapters the server runs.  readOnly
\* and the flags are what the constructor of the server sets for it.
AdapterInit ==
  /\ adapterType \in LifecycleAdapters
  /\ READ_ONLY_MODE \in IF adapterType = "SQLiteAdapter" THEN EnvValues
                        ELSE {Unset, "false"}
  /\ env \in UNION {IF adapterType = "MySQLAdapter"
                    THEN {e} \cup {[e EXCEPT !["MYSQL_URL"] = u] : u \in MySQLUrls}
                    ELSE {e} : e \in ServingEnvs(adapterType)}
  /\ main = [MainRunning(env) EXCEPT
               !.pc = IF adapterType \in SqlAdapters THEN "running" ELSE "create",
               !.stderr = IF adapterType \in SqlAdapters THEN @ ELSE << >>]
  /\ readOnly = ResolveReadOnly(READ_ONLY_MODE)
  /\ isRedis = (adapterType = "RedisAdapter")
  /\ isMongo = (adapterType = "MongoAdapter")
  /\ isLDAP = FALSE
  /\ inv = [i \in Invocations |-> Idle]
  /\ listed = << >>
  /\ redis = EmptyRedis
  /\ ldap = NewLDAPAdapter
  /\ folders = NoFolders
  /\ handle = NewAdapter(adapterType, READ_ONLY_MODE, main.connectionString)

\* connect() of RedisAdapter and MongoAdapter up to its await: it throws when
\* the client is null, else client.connect() is called.
Connect ==
  /\ adapterType \in {"RedisAdapter", "MongoAdapter"}
  /\ ~handle.connecting
  /\ handle.n < MaxOps
  /\ handle' =
       IF ~handle.handle
       THEN [handle EXCEPT !.n = @ + 1,
               !.last = [tool |-> "", call |-> "connect", dbName |-> Unset,
                         outcome |-> IF adapterType = "RedisAdapter"
                                     THEN "Redis client not initialized"
                                     ELSE "MongoDB client not initialized"]]
       ELSE [handle EXCEPT !.n = @ + 1, !.driver = @ + 1, !.connecting = TRUE,
               !.last = [tool |-> "", call |-> "connect", dbName |-> Unset,
                         outcome |-> ""]]
  /\ UNCHANGED <<server, process, inv, listed, redis, ldap, folders>>

\* client.connect() settles.  MongoAdapter then sets this.db =
\* this.client.db(name), which throws when close() has set the client to
\* null meanwhile.  The first connect is the one createAdapter awaits: the
\* server is constructed and started after it.
ConnectReturn ==
  /\ handle.connecting
  /\ \E outcome \in {"ok", DriverErrorMessage} :
       /\ handle' = [handle EXCEPT
                       !.connecting = FALSE,
                       !.db = IF adapterType = "MongoAdapter" /\ outcome = "ok"
                              THEN handle.handle ELSE @]
       /\ main' = IF main.pc = "create" /\ outcome = "ok" /\ handle.handle
                  THEN [main EXCEPT !.pc = "running",
                                    !.stderr = Append(@, RunningMessage)]
                  ELSE main
  /\ UNCHANGED <<server, env, inv, listed, redis, ldap, folders>>

\* A caller of the adapter calls one of its methods.
Operation(method) ==
  /\ method \in MethodsOf(adapterType)
  /\ handle.n < MaxOps
  /\ \E outcome \in {"ok", DriverErrorMessage} :
       handle' = AdapterCall(handle, adapterType, "", method, Unset,
                             <<"SELECT">>, outcome)
  /\ UNCHANGED <<server, process, inv, listed, redis, ldap, folders>>

\* close() up to its await: nothing when the handle is null; SQLiteAdapter
\* closes the database and sets db to null at once; the others call
\* pool.end(), client.quit() or client.close().
Close ==
  /\ handle.n < MaxOps
  /\ handle' =
       LET called == [handle EXCEPT !.n = @ + 1,
                        !.last = [tool |-> "", call |-> "close",
                                  outcome |-> "ok", dbName |-> Unset]]
       IN  IF ~handle.handle THEN called
           ELSE IF adapterType = "SQLiteAdapter"
             THEN [called EXCEPT !.driver = @ + 1, !.handle = FALSE]
           ELSE [called EXCEPT !.driver = @ + 1, !.closing = @ + 1]
  /\ UNCHANGED <<server, process, inv, listed, redis, ldap, folders>>

\* pool.end(), client.quit() or client.close() settles: the handle, and
\* this.db of MongoAdapter, are set to null.
CloseReturn ==
  /\ handle.closing > 0
  /\ handle' = [handle EXCEPT !.closing = @ - 1, !.handle = FALSE, !.db = FALSE]
  /\ UNCHANGED <<server, process, inv, listed, redis, ldap, folders>>

\* A generic SQL tool, from the request to the response: the switch up to
\* the adapter call, then the adapter method.
SqlTool(name, args) ==
  /\ main.pc = "running"
  /\ handle.n < MaxOps
  /\ LET r == Dispatch(name, args) IN
     IF r.kind = "throw"
     THEN handle' = [handle EXCEPT !.n = @ + 1,
                       !.last = [tool |-> name, call |-> "", dbName |-> Unset,
                                 outcome |-> r.message]]
     ELSE \E outcome \in {"ok", DriverErrorMessage} :
            handle' = AdapterCall(handle, adapterType, name, r.method,
                                  SchemaParam(name, args), args.sql, outcome)
  /\ UNCHANGED <<server, process, inv, listed, redis, ldap, folders>>

SqlToolNames == {name \in CaseNames : Cases[name].onlyFor = "none"}
SqlToolArgs(name) ==
  {UndefinedArgs}
  \cup {ObjectArgs(RequiredOf(name), sql) : sql \in {<<"SELECT">>, <<"DELETE">>}}
  \cup {With(ObjectArgs(RequiredOf(name), <<"SELECT">>), "schema", "inventory")}

AdapterNext ==
  \/ Connect
  \/ ConnectReturn
  \/ \E method \in MethodsOf(adapterType) : Operation(method)
  \/ Close
  \/ CloseReturn
  \/ \E name \in SqlToolNames : \E args \in SqlToolArgs(name) : SqlTool(name, args)

AdapterSpec == AdapterInit /\ [][AdapterNext]_vars

(***************************************************************************)
(* Properties                                                              *)
(***************************************************************************)
\* The responses the properties speak of, written out.
ErrorEnvelope(message) ==
  [content |-> <<[type |-> "text", text |-> "Error: " \o message]>>,
   isError |-> TRUE]
ReadOnlyError ==
  ErrorEnvelope("Server is running in read-only mode. Write operations are disabled.")
\* The names listed by the catalog of the running server.
CatalogNames ==
  LET tools == ListTools(isRedis, isMongo, isLDAP)
  IN  {tools[k].name : k \in 1..Len(tools)}
\* An invocation that reached an adapter method.
ReachedAdapter(i) == inv[i].calls # << >>

\* The operations marked mutating.
MutatingTools ==
  {"execute_sql",
   "redis_set", "redis_del", "redis_expire", "redis_hset",
   "mongo_insert_one", "mongo_insert_many", "mongo_update_one",
   "mongo_update_many", "mongo_delete_one", "mongo_delete_many",
   "mongo_create_index",
   "ldap_add", "ldap_modify", "ldap_delete"}

\* C1: under ReadOnly an invocation of a mutating operation calls no adapter
\* method, on any backend and with any arguments, and the response it gets is
\* the fixed read-only error.
C1_ReadOnlyBlocksMutating ==
  \A i \in Invocations :
    (readOnly /\ inv[i].name \in MutatingTools) =>
      /\ ~ReachedAdapter(i)
      /\ inv[i].driver = << >>
      /\ inv[i].pc \in {"received", "responded"}
      /\ inv[i].pc = "responded" => inv[i].response = <<ReadOnlyError>>

\* C1 witness: a mutating LDAP tool, invoked with its arguments on a Redis
\* server in read-only mode, has been answered.
C1_Witness ==
  \E i \in Invocations :
    /\ readOnly /\ isRedis
    /\ inv[i].name = "ldap_add" /\ inv[i].args.props = {"dn", "attributes"}
    /\ inv[i].pc = "responded"

\* C2: under ReadOnly no statement or command given to the driver changes data.
C2_NoWriteReachesDriver ==
  \A i \in Invocations :
    readOnly =>
      \A k \in 1..Len(inv[i].driver) :
        ~IsDataModifying(adapterType, inv[i].driver[k])

\* C3 as stated: "false", "FALSE" and "0" give ReadWrite; absent, "", "true",
\* "yes", "1" and any other value give ReadOnly.
C3_FalseTokensAnyCase ==
  /\ READ_ONLY_MODE \in {"false", "FALSE", "0"} => ~readOnly
  /\ READ_ONLY_MODE \notin {"false", "FALSE", "0"} => readOnly

\* C3 amended: exactly "false" and "0" give ReadWrite; every other value,
\* "FALSE" among them, gives ReadOnly.
C3_FalseTokensExact ==
  /\ READ_ONLY_MODE \in {"false", "0"} => ~readOnly
  /\ READ_ONLY_MODE \in {Unset, "", "true", "yes", "1", "FALSE", "no"} => readOnly

\* C3 witness: a server started with READ_ONLY_MODE=FALSE has refused a write.
C3_Witness ==
  \E i \in Invocations :
    /\ READ_ONLY_MODE = "FALSE"
    /\ inv[i].name = "execute_sql"
    /\ inv[i].response = <<ReadOnlyError>>

\* C4: an invocation whose name the catalog of the active backend does not
\* list reaches no adapter method and is answered with an error.
C4_UnlistedNeverReachesAdapter ==
  \A i \in Invocations :
    (inv[i].pc # "idle" /\ inv[i].name \notin CatalogNames) =>
      /\ ~ReachedAdapter(i)
      /\ inv[i].pc = "responded" => "isError" \in DOMAIN inv[i].response[1]
\* The backend a native tool is listed for.
ListedFor(name) ==
  CASE name \in {RedisTools[k].name : k \in 1..Len(RedisTools)} -> "Redis"
    [] name \in {MongoTools[k].name : k \in 1..Len(MongoTools)} -> "MongoDB"
    [] name \in {LdapTools[k].name : k \in 1..Len(LdapTools)} -> "LDAP"
    [] OTHER -> "SQL"
\* A redis_*, mongo_* or ldap_* tool invoked while another backend is active.
NativeOnOtherBackend(i) ==
  /\ inv[i].pc = "responded"
  /\ ListedFor(inv[i].name) # "SQL"
  /\ inv[i].name \in CaseNames \ CatalogNames

\* C5 as stated, for the native tools: the response to a tool of another
\* backend is the response an unknown name gets.
C5_OtherBackendLooksUnknown ==
  \A i \in Invocations :
    NativeOnOtherBackend(i) =>
      inv[i].response = <<ErrorEnvelope("Unknown tool: " \o inv[i].name)>>

\* C5 amended: a native tool invoked on another backend reaches no adapter
\* method and is answered with the error that names its backend, or with the
\* read-only error when it is mutating and the mode is ReadOnly; the answer is
\* never the unknown-tool error.
C5_OtherBackendIsNamed ==
  \A i \in Invocations :
    NativeOnOtherBackend(i) =>
      /\ ~ReachedAdapter(i)
      /\ inv[i].response =
           IF readOnly /\ inv[i].name \in MutatingTools
           THEN <<ReadOnlyError>>
           ELSE <<ErrorEnvelope("This tool is only available for "
                                 \o ListedFor(inv[i].name))>>
      /\ inv[i].response # <<ErrorEnvelope("Unknown tool: " \o inv[i].name)>>

\* C5 witness: redis_get, with its key, has been answered by a PostgreSQL
\* server.
C5_Witness ==
  \E i \in Invocations :
    /\ adapterType = "PostgresAdapter"
    /\ inv[i].name = "redis_get" /\ inv[i].args.props = {"key"}
    /\ inv[i].pc = "responded"

\* C6: no error leaves the handler; an invocation during which an error was
\* raised is answered with the one text item "Error: " + message and
\* isError = true, and a response to an invocation without error has no
\* isError.
C6_ErrorsBecomeErrorResponses ==
  \A i \in Invocations :
    /\ inv[i].pc # "threw"
    /\ inv[i].errors # << >> => inv[i].pc = "responded"
    /\ (inv[i].pc = "responded" /\ ~ReachedAdapter(i)) => inv[i].errors # << >>
    /\ (inv[i].pc = "responded" /\ inv[i].name \notin CaseNames) =>
         inv[i].errors = <<"Unknown tool: " \o inv[i].name>>
    /\ inv[i].pc = "responded" =>
         /\ Len(inv[i].response) = 1
         /\ IF inv[i].errors # << >>
            THEN inv[i].response[1] = ErrorEnvelope(inv[i].errors[1])
            ELSE /\ "isError" \notin DOMAIN inv[i].response[1]
                 /\ Len(inv[i].response[1].content) = 1

\* C6 witness: the driver failed under a describe_table call and the
\* invocation has been answered.
C6_Witness ==
  \E i \in Invocations :
    /\ inv[i].name = "describe_table"
    /\ inv[i].calls = <<"describeTable">>
    /\ inv[i].errors # << >>
    /\ inv[i].pc = "responded"

\* C7: an invocation never has more than one response, it has one exactly
\* when it is in Responded, and every received invocation reaches Responded,
\* whatever the other invocations in flight do.
C7_ExactlyOneResponse ==
  /\ \A i \in Invocations :
       [](/\ Len(inv[i].response) <= 1
          /\ inv[i].pc = "responded" <=> Len(inv[i].response) = 1)
  /\ \A i \in Invocations :
       (inv[i].pc = "received") ~> (inv[i].pc = "responded")

\* C7 witness: one invocation has been answered while another one, received
\* before it was answered, still waits for its backend call.
C7_Witness ==
  \E i, j \in Invocations :
    /\ i # j
    /\ inv[i].pc = "responded" /\ inv[i].calls # << >>
    /\ inv[j].pc = "awaiting"

\* The arguments are an object and, for query, the statement starts with
\* SELECT in any letter case after leading white space.
PassesValidation(i) ==
  /\ inv[i].args.defined
  /\ inv[i].name = "query" =>
       /\ "sql" \in inv[i].args.props
       /\ \E k \in 1..Len(inv[i].args.sql) :
            /\ inv[i].args.sql[k] \in {"select", "SELECT"}
            /\ \A j \in 1..(k - 1) : inv[i].args.sql[j] = " "
\* A listed, non-mutating tool handled under ReadOnly.
ReadUnderReadOnly(i) ==
  /\ readOnly
  /\ inv[i].pc \in {"awaiting", "responded"}
  /\ inv[i].name \in CatalogNames \ MutatingTools

\* C8 as stated, for invocations that carry every required parameter: under
\* ReadOnly every invocation of a listed, non-mutating tool reaches the
\* backend call.
C8_ReadsAlwaysReachBackend ==
  \A i \in Invocations :
    ( /\ ReadUnderReadOnly(i)
      /\ inv[i].args.defined
      /\ RequiredOf(inv[i].name) \subseteq inv[i].args.props ) =>
      ReachedAdapter(i)

\* C8 amended: under ReadOnly an invocation of a listed, non-mutating tool is
\* never answered with the read-only error, and it reaches the backend call
\* when its arguments pass validation.
C8_GateNeverBlocksReads ==
  \A i \in Invocations :
    ReadUnderReadOnly(i) =>
      /\ inv[i].response # <<ReadOnlyError>>
      /\ PassesValidation(i) => ReachedAdapter(i)

\* C8 witness: under ReadOnly a Redis server has answered redis_get from the
\* backend.
C8_Witness ==
  \E i \in Invocations :
    /\ readOnly /\ isRedis
    /\ inv[i].name = "redis_get" /\ inv[i].calls = <<"get">>
    /\ inv[i].pc = "responded" /\ inv[i].errors = << >>

\* A statement text that is lexically a pure retrieval: it holds at least one
\* statement and each of its statements begins with SELECT.
IsPureRetrieval(s) ==
  /\ StatementHeads(s) # {}
  /\ \A k \in StatementHeads(s) : toUpperCase(s)[k] = "SELECT"

\* C9: in either mode a query whose statement is not a pure retrieval never
\* calls adapter.query and is answered with an error.
C9_QueryRejectsNonRetrieval ==
  \A i \in Invocations :
    ( /\ inv[i].name = "query"
      /\ "sql" \in inv[i].args.props
      /\ ~IsPureRetrieval(inv[i].args.sql) ) =>
      /\ ~ReachedAdapter(i)
      /\ inv[i].pc = "responded" => "isError" \in DOMAIN inv[i].response[1]

\* C10: an invocation that reaches an adapter method carries every parameter
\* its inputSchema lists as required.
C10_RequiredArgsValidated ==
  \A i \in Invocations :
    ReachedAdapter(i) => RequiredOf(inv[i].name) \subseteq inv[i].args.props

\* The adapters the case of a tool serves: the one its `only available for`
\* guard names, the SQL adapters when it has no guard.
AppliesTo(name) ==
  IF name \notin CaseNames THEN {}
  ELSE CASE Cases[name].onlyFor = "Redis" -> {"RedisAdapter"}
         [] Cases[name].onlyFor = "MongoDB" -> {"MongoAdapter"}
         [] Cases[name].onlyFor = "LDAP" -> {"LDAPAdapter"}
         [] OTHER -> SqlAdapters

\* C11: every catalog the ListTools handler has returned names no operation
\* twice and names only operations that apply to the adapter of the server.
C11_CatalogAppliesToBackend ==
  \A n \in 1..Len(listed) :
    LET tools == listed[n].tools IN
    /\ \A j, k \in 1..Len(tools) : tools[j].name = tools[k].name => j = k
    /\ \A k \in 1..Len(tools) : adapterType \in AppliesTo(tools[k].name)
\* The tools have been listed on a server that is not an SQL server.
C11_Witness ==
  /\ listed # << >>
  /\ adapterType = "MongoAdapter"
  /\ Len(listed[1].tools) > 0

\* C12: an invocation of an operation the catalog of the running server lists
\* is never answered with the unknown-tool error nor with an `only available
\* for` error, on any adapter and with any arguments.
C12_ListedIsDispatchable ==
  \A i \in Invocations :
    (inv[i].pc = "responded" /\ inv[i].name \in CatalogNames) =>
      /\ inv[i].response[1] # ErrorEnvelope(UnknownToolMessage(inv[i].name))
      /\ \A b \in {"Redis", "MongoDB", "LDAP"} :
           inv[i].response[1] # ErrorEnvelope(OnlyAvailableMessage(b))
      /\ \A k \in 1..Len(inv[i].errors) :
           /\ inv[i].errors[k] # UnknownToolMessage(inv[i].name)
           /\ inv[i].errors[k] \notin
                {OnlyAvailableMessage(b) : b \in {"Redis", "MongoDB", "LDAP"}}
\* A listed native operation has been answered with the result of its
\* adapter call.
C12_Witness ==
  \E i \in Invocations :
    /\ inv[i].pc = "responded"
    /\ inv[i].name = "ldap_list_folders"
    /\ inv[i].name \in CatalogNames
    /\ ReachedAdapter(i)
    /\ "isError" \notin DOMAIN inv[i].response[1]

\* C13: any two answers of the ListTools handler in one process carry the
\* same tools in the same order, whatever CallTool requests were handled
\* between them.
C13_ListingIsIdempotent ==
  \A m, n \in 1..Len(listed) : listed[m].tools = listed[n].tools
\* The tools were listed while no request was in progress and again when a
\* request had been answered with an error.
C13_Witness ==
  /\ Len(listed) = 2
  /\ listed[1].during = {"idle"}
  /\ "responded" \in listed[2].during
  /\ \E i \in Invocations : inv[i].pc = "responded" /\ inv[i].errors # << >>

Succeeds(i, name) ==
  /\ inv[i].name = name
  /\ inv[i].pc = "awaiting"
  /\ inv'[i].pc = "responded"
  /\ "isError" \notin DOMAIN inv'[i].response[1]
\* This step writes key k of the Redis server: a redis_set, redis_del or
\* redis_hset of k is answered, or the time to live of k elapses.
WritesKey(k) ==
  \/ \E i \in Invocations :
       /\ inv[i].name \in {"redis_set", "redis_del", "redis_hset"}
       /\ Arg(inv[i].args, "key") = k
       /\ inv[i].pc = "awaiting"
       /\ inv'[i].pc = "responded"
  \/ k \in redis.volatile /\ redis'.store[k] = RedisNil

\* C15: on a Redis server, in every step: (1) under ReadOnly a redis_set is
\* answered with the read-only error, calls no adapter method and leaves the
\* store as it was; (2) under ReadWrite a redis_set with key and value reaches
\* RedisAdapter.set, and when it is answered with its result key k holds
\* value v; (3) the value of a key changes only in a step that writes that key
\* (a set, del or hset of it, or the expiry of the time to live a set or
\* expire gave it); (4) a redis_get of k answered with its result carries the
\* value k holds.  So a get of k that follows a successful set of k to v with
\* no write to k between them returns v.
C15_SetThenGet ==
  [][ /\ \A i \in Invocations :
           ( /\ adapterType = "RedisAdapter"
             /\ inv[i].name = "redis_set"
             /\ inv[i].pc = "received"
             /\ inv'[i].pc # "received" ) =>
             IF readOnly
             THEN /\ inv'[i].response = <<ReadOnlyError>>
                  /\ inv'[i].calls = << >>
                  /\ redis' = redis
             ELSE {"key", "value"} \subseteq inv[i].args.props =>
                    inv'[i].pc = "awaiting" /\ inv'[i].calls = <<"set">>
      /\ \A i \in Invocations :
           (Succeeds(i, "redis_set") /\ Arg(inv[i].args, "key") \in Keys) =>
             /\ ~readOnly
             /\ redis'.store[Arg(inv[i].args, "key")] = Arg(inv[i].args, "value")
      /\ \A k \in Keys : redis'.store[k] # redis.store[k] => WritesKey(k)
      /\ \A i \in Invocations :
           (Succeeds(i, "redis_get") /\ Arg(inv[i].args, "key") \in Keys) =>
             inv'[i].response =
               <<GetResponse(Arg(inv[i].args, "key"),
                             redis.store[Arg(inv[i].args, "key")])>>
    ]_vars
\* Under ReadWrite a redis_get of key b has returned a, the value a redis_set
\* gave it: no server starts with that value.
C15_Witness ==
  /\ adapterType = "RedisAdapter"
  /\ ~readOnly
  /\ \E i \in Invocations :
       /\ inv[i].name = "redis_get"
       /\ inv[i].pc = "responded"
       /\ inv[i].response = <<GetResponse("b", "a")>>

\* The adapter was given a bind DN and a password at start.
HasCredentials == Truthy(ldap.bindDN) /\ Truthy(ldap.bindPassword)
\* C16: on an LDAP server with configured credentials, an ldap_search whose
\* directory operation runs while an ldap_authenticate of another invocation
\* is in flight runs bound as the configured bind DN: never as the DN being
\* authenticated, never unbound.
C16_SearchRunsAsConfigured ==
  [][ \A i \in Invocations :
        ( /\ HasCredentials
          /\ inv[i].name = "ldap_search"
          /\ Len(inv'[i].ranAs) > Len(inv[i].ranAs)
          /\ \E j \in Invocations \ {i} :
               inv[j].name = "ldap_authenticate" /\ inv[j].pc \in Awaits ) =>
          inv'[i].ranAs[Len(inv'[i].ranAs)] = ldap.bindDN
    ]_vars

\* C17: once the server is constructed no step (a tool invocation, a listing,
\* an expiry, an assignment to READ_ONLY_MODE) changes readOnly, isRedis,
\* isMongo, isLDAP or the adapter, and in every reachable state at most one of
\* isRedis, isMongo, isLDAP is true.
C17_PolicyAndBackendAreFixed ==
  /\ [][ /\ readOnly' = readOnly
         /\ isRedis' = isRedis
         /\ isMongo' = isMongo
         /\ isLDAP' = isLDAP
         /\ adapterType' = adapterType ]_vars
  /\ [](Cardinality({f \in {"Redis", "MongoDB", "LDAP"} : BackendFlag(f)}) <= 1)
\* READ_ONLY_MODE was set to false after a read-only server was constructed:
\* a redis_set is still refused.
C17_Witness ==
  /\ READ_ONLY_MODE = "false"
  /\ readOnly
  /\ isRedis
  /\ listed # << >>
  /\ \E i \in Invocations :
       /\ inv[i].name = "redis_set"
       /\ inv[i].response = <<ReadOnlyError>>

\* The values of DB_TYPE createAdapter has a case for, in lower case.
RecognizedTokens ==
  {"postgres", "postgresql", "redis", "mongodb", "mongo", "ldap",
   "mysql", "mysql2", "sqlite"}
\* DB_TYPE is set to a value that is none of the recognized tokens.
Unrecognized == toLowerCase(DbType(env)) \notin RecognizedTokens

\* C18: start is fail-stop.  (1) The server is constructed and started only
\* with an adapter createAdapter returned.  (2) With an unrecognized DB_TYPE
\* the server is never constructed nor started, and the process comes to exit
\* with status 1.  (3) A step in which createAdapter fails (unrecognized
\* DB_TYPE, constructor, connect or bind error) ends the process: the error is
\* logged as fatal, the status is 1, no server exists.  (4) A process that
\* has exited logged its error and has status 1, and it never said it runs.
\* (5) Every start comes to run or to exit.
C18_StartIsFailStop ==
  /\ [](main.pc \in {"start", "running"} =>
          /\ adapterType \in AdapterTypes
          /\ adapterType = AdapterClass(main.dbType))
  /\ [](Unrecognized => main.pc \notin {"start", "running"} /\ adapterType = NoAdapter)
  /\ ((main.pc = "load" /\ Unrecognized) ~> (main.pc = "exited" /\ main.exitCode = "1"))
  /\ [][ (main.pc = "create" /\ main'.pc # "start") =>
           /\ main'.pc = "exited"
           /\ main'.exitCode = "1"
           /\ main'.error # ""
           /\ main'.stderr = <<FatalMessage(main'.error)>>
           /\ adapterType' = NoAdapter ]_vars
  /\ [](main.pc = "exited" =>
          /\ main.exitCode = "1"
          /\ main.stderr = <<FatalMessage(main.error)>>
          /\ listed = << >>)
  /\ <>(main.pc \in {"running", "exited"})
\* A start with DB_TYPE=oracle has exited with the error of createAdapter.
C18_Witness ==
  /\ main.pc = "exited"
  /\ main.exitCode = "1"
  /\ main.error = UnsupportedMessage("oracle")
  /\ adapterType = NoAdapter

\* The adapter and the catalog a value of DB_TYPE stands for, whatever its
\* case; NoAdapter, and no catalog, for a value that is no recognized token.
SelectedBackend(value) ==
  CASE value \in {Unset, "", "postgres", "postgresql", "POSTGRES", "PostgreSQL"}
         -> [adapter |-> "PostgresAdapter", catalog |-> SqlTools]
    [] value \in {"mysql", "mysql2", "MySQL"}
         -> [adapter |-> "MySQLAdapter", catalog |-> SqlTools]
    [] value \in {"sqlite", "SQLite"}
         -> [adapter |-> "SQLiteAdapter", catalog |-> SqlTools]
    [] value \in {"redis", "Redis"}
         -> [adapter |-> "RedisAdapter", catalog |-> RedisTools]
    [] value \in {"mongodb", "mongo", "MongoDB"}
         -> [adapter |-> "MongoAdapter", catalog |-> MongoTools]
    [] value \in {"ldap", "LDAP"}
         -> [adapter |-> "LDAPAdapter", catalog |-> LdapTools]
    [] OTHER -> [adapter |-> NoAdapter, catalog |-> << >>]

\* C19: the adapter of a constructed server is the one DB_TYPE stands for,
\* in whatever case it is written, and PostgreSQL when DB_TYPE is unset or
\* empty; exactly the flag of that backend is set; every catalog the server
\* returns is the catalog of that backend; a start whose DB_TYPE is a
\* recognized token in any case never ends with `Unsupported database type`.
C19_BackendFollowsDbType ==
  LET selected == SelectedBackend(env["DB_TYPE"]) IN
  /\ main.pc \in {"start", "running"} =>
       /\ selected.adapter # NoAdapter
       /\ adapterType = selected.adapter
       /\ isRedis = (selected.adapter = "RedisAdapter")
       /\ isMongo = (selected.adapter = "MongoAdapter")
       /\ isLDAP = (selected.adapter = "LDAPAdapter")
  /\ \A n \in 1..Len(listed) : listed[n].tools = selected.catalog
  /\ (main.pc = "exited" /\ selected.adapter # NoAdapter) =>
       main.error # UnsupportedMessage(main.dbType)
\* A server started with DB_TYPE=MongoDB has returned the MongoDB catalog.
C19_Witness ==
  /\ env["DB_TYPE"] = "MongoDB"
  /\ main.pc = "running"
  /\ adapterType = "MongoAdapter"
  /\ listed # << >>
  /\ listed[1].tools = MongoTools

\* The keys read for the backend a value of DB_TYPE stands for, in their
\* order, and the default that ends them.
FallbackOrder(value) ==
  LET adapter == SelectedBackend(value).adapter IN
  CASE adapter = "RedisAdapter"
         -> [keys |-> <<"REDIS_CONNECTION_STRING", "REDIS_URL">>,
             default |-> "redis://localhost:6379"]
    [] adapter = "MongoAdapter"
         -> [keys |-> <<"MONGODB_CONNECTION_STRING", "MONGODB_URL">>,
             default |-> "mongodb://localhost:27017"]
    [] adapter = "LDAPAdapter"
         -> [keys |-> <<"LDAP_CONNECTION_STRING", "LDAP_URL">>,
             default |-> "ldap://localhost:389"]
    [] adapter = "MySQLAdapter"
         -> [keys |-> <<"MYSQL_CONNECTION_STRING", "MYSQL_URL", "DATABASE_URL">>,
             default |-> "mysql://localhost:3306"]
    [] adapter = "SQLiteAdapter"
         -> [keys |-> <<"SQLITE_CONNECTION_STRING", "SQLITE_URL", "DATABASE_URL">>,
             default |-> "sqlite://./database.sqlite"]
    [] OTHER
         -> [keys |-> <<"POSTGRES_CONNECTION_STRING", "DATABASE_URL">>,
             default |-> "postgresql://localhost:5432/postgres"]
\* The value of the first key of the sequence that is set and not empty in
\* e, the default when there is none.
RECURSIVE FirstNonEmpty(_, _, _)
FirstNonEmpty(e, keys, default) ==
  IF keys = << >> THEN default
  ELSE IF e[Head(keys)] \notin {Unset, ""} THEN e[Head(keys)]
  ELSE FirstNonEmpty(e, Tail(keys), default)

\* C20: once index.ts has chosen it, the connection string is the first
\* non-empty value of the keys of the selected backend, in their order, or
\* the default of that backend; it is never the value of a key of another
\* backend, set or not.
C20_ConnectionStringFallback ==
  main.pc # "load" =>
    LET order == FallbackOrder(env["DB_TYPE"])
        own == {order.keys[k] : k \in 1..Len(order.keys)}
    IN  /\ main.connectionString = FirstNonEmpty(env, order.keys, order.default)
        /\ \A key \in ConnectionKeys \ own :
             /\ main.connectionString # EnvValue(key)
             /\ env[key] \in {Unset, ""} \/ main.connectionString # env[key]
\* A MySQL start has fallen back to DATABASE_URL past an empty MYSQL_URL
\* while the key of another backend was set.
C20_Witness ==
  /\ main.pc # "load"
  /\ env["DB_TYPE"] = "mysql"
  /\ env["MYSQL_CONNECTION_STRING"] = Unset
  /\ env["MYSQL_URL"] = ""
  /\ env["DATABASE_URL"] = EnvValue("DATABASE_URL")
  /\ main.connectionString = EnvValue("DATABASE_URL")

\* No connection-string key of the backend DB_TYPE selects is set (to a
\* value that is not empty).
NoKeySet ==
  LET order == FallbackOrder(env["DB_TYPE"]) IN
  \A k \in 1..Len(order.keys) : env[order.keys[k]] \in {Unset, ""}

\* C21 as claimed: a process started with no connection-string key of the
\* selected backend never comes to serve.
C21_NoKeyNeverServes ==
  NoKeySet => main.pc # "running"
\* C21 amended: a missing connection-string key is no error.  The module body
\* goes on to createAdapter with the default connection string of the
\* selected backend; a start without a key that exits does so because
\* DB_TYPE is unsupported, or creating the adapter or connecting the
\* transport failed, and on PostgreSQL and MySQL, whose adapters only create
\* a pool, only because the transport failed.
C21_NoKeyUsesDefault ==
  /\ [][ (main.pc = "load" /\ NoKeySet) =>
           /\ main'.pc = "create"
           /\ main'.error = ""
           /\ main'.connectionString = FallbackOrder(env["DB_TYPE"]).default ]_vars
  /\ []((NoKeySet /\ main.pc = "exited") =>
          /\ main.error \in {UnsupportedMessage(main.dbType), StartErrorMessage,
                             CreateErrorMessage(AdapterClass(main.dbType)),
                             ldap.error}
          /\ AdapterClass(main.dbType) \in {"PostgresAdapter", "MySQLAdapter"} =>
               main.error = StartErrorMessage)
\* A MySQL server runs on the default connection string, no key being set.
C21_Witness ==
  /\ NoKeySet
  /\ env["DB_TYPE"] = "mysql"
  /\ env["REDIS_URL"] # Unset
  /\ main.pc = "running"
  /\ main.connectionString = "mysql://localhost:3306"

\* C22 as claimed: an invocation of an operation that does not apply to the
\* adapter of the server is never answered with the read-only error.
C22_InapplicableNeverReadOnlyError ==
  \A i \in Invocations :
    (inv[i].pc = "responded" /\ adapterType \notin AppliesTo(inv[i].name)) =>
      inv[i].response # <<ReadOnlyError>>
\* C22 amended: the name is resolved first, then the read-only gate of a
\* mutating case, then the adapter flag.  A name without a case is answered
\* `Unknown tool`, never the read-only error; an operation that does not
\* apply to the adapter is answered the read-only error exactly when it is
\* mutating and the server is read-only, and then no adapter method is called.
C22_GateBeforeBackendGuard ==
  \A i \in Invocations :
    inv[i].pc = "responded" =>
      /\ inv[i].name \notin CaseNames =>
           inv[i].response = <<ErrorResponse(UnknownToolMessage(inv[i].name))>>
      /\ adapterType \notin AppliesTo(inv[i].name) =>
           /\ (inv[i].response = <<ReadOnlyError>>) <=>
                (inv[i].name \in MutatingTools /\ readOnly)
           /\ (inv[i].name \in MutatingTools /\ readOnly) => inv[i].calls = << >>
\* redis_set has been answered by a read-only PostgreSQL server.
C22_Witness ==
  \E i \in Invocations :
    /\ adapterType = "PostgresAdapter" /\ readOnly
    /\ inv[i].name = "redis_set"
    /\ inv[i].pc = "responded"
    /\ inv[i].response = <<ReadOnlyError>>

\* The start is an LDAP start and neither LDAP_PASSWORD nor
\* LDAP_BIND_PASSWORD holds a password.
NoBindPassword ==
  /\ SelectedBackend(env["DB_TYPE"]).adapter = "LDAPAdapter"
  /\ env["LDAP_PASSWORD"] \in {Unset, ""}
  /\ env["LDAP_BIND_PASSWORD"] \in {Unset, ""}

\* C23: once createAdapter has settled on an LDAP start without a bind
\* password, no bind was attempted, the adapter was returned (createAdapter
\* did not throw) and its client is anonymous, whichever of LDAP_BIND_DN,
\* LDAP_LOGIN, LDAP_BASE_DN and LDAP_ROOT_DOMAIN are set.
C23_NoPasswordIsAnonymous ==
  (NoBindPassword /\ main.pc \notin {"load", "create"}) =>
    /\ ldap.binds = << >>
    /\ ldap.bound = Anonymous
    /\ ldap.error = ""
    /\ adapterType = "LDAPAdapter"
    /\ main.pc = "exited" => main.error = StartErrorMessage

\* The start is an LDAP start with LDAP_LOGIN, LDAP_BASE_DN and a password
\* and without LDAP_BIND_DN.
TriesFormats ==
  /\ SelectedBackend(env["DB_TYPE"]).adapter = "LDAPAdapter"
  /\ env["LDAP_BIND_DN"] \in {Unset, ""}
  /\ env["LDAP_LOGIN"] = "jdoe"
  /\ env["LDAP_BASE_DN"] = "DC=example,DC=com"
  /\ env["LDAP_PASSWORD"] = "secret" \/ env["LDAP_BIND_PASSWORD"] = "bind-secret"
\* The five bind DNs for login jdoe and base DN DC=example,DC=com, in the
\* order of the claim.
FiveFormats ==
  <<"CN=jdoe,CN=Users,DC=example,DC=com",
    IF env["LDAP_ROOT_DOMAIN"] = "example.org"
      THEN "jdoe@example.org" ELSE "jdoe@example.com",
    "CN=jdoe,DC=example,DC=com",
    "CN=jdoe,OU=Users,DC=example,DC=com",
    "jdoe">>

\* C24: once createAdapter has settled on such a start, the binds attempted
\* are the first n of the five formats in their order, 1 <= n <= 5; every
\* attempt but the last failed; the adapter is returned exactly when the
\* last attempt succeeded, with that format as bind DN and identity of the
\* client; createAdapter threw exactly when all five attempts failed, and the
\* error is `bind failed with all attempted formats` with the failure of the
\* fifth attempt.
C24_FormatsInOrder ==
  (TriesFormats /\ main.pc \notin {"load", "create"}) =>
    LET n == Len(ldap.binds)
        returned == adapterType = "LDAPAdapter"
    IN  /\ n \in 1..5
        /\ \A k \in 1..n : ldap.binds[k].dn = FiveFormats[k]
        /\ \A k \in 1..(n - 1) : ldap.binds[k].outcome # "ok"
        /\ returned <=> ldap.binds[n].outcome = "ok"
        /\ returned => /\ ldap.bindDN = FiveFormats[n]
                       /\ ldap.bound = FiveFormats[n]
                       /\ ldap.error = ""
        /\ ~returned <=> (n = 5 /\ \A k \in 1..5 : ldap.binds[k].outcome # "ok")
        /\ ~returned =>
             /\ main.pc = "exited"
             /\ main.error =
                  "LDAP bind failed with all attempted formats. Last error: "
                    \o BindError("jdoe")
\* The third format was the first to bind and the server was started.
C24_Witness ==
  /\ TriesFormats
  /\ main.pc = "running"
  /\ Len(ldap.binds) = 3
  /\ ldap.bound = "CN=jdoe,DC=example,DC=com"

\* C25: on an LDAP server with configured credentials, in the step in which
\* authenticate returns (true or false) to an ldap_authenticate, no other
\* invocation using the client, the client is bound as the configured bind
\* DN.
C25_ReboundAfterAuthenticate ==
  [][ \A i \in Invocations :
        ( /\ HasCredentials
          /\ inv[i].name = "ldap_authenticate"
          /\ inv[i].pc \in Awaits
          /\ inv'[i].pc = "responded"
          /\ \A j \in Invocations \ {i} : inv[j].pc \notin Awaits ) =>
          ldap'.bound = ldap.bindDN
    ]_vars

\* The DNs of the folder entries the search returns.
FoundDNs == {Join(folders.entries[k]) : k \in 1..Len(folders.entries)}

\* C26: the folders ldap_list_folders returns are the DNs of all the entries
\* the folder search found, each of them, nested or not.
C26_ListsEveryFolder ==
  \A n \in 1..Len(folders.response) :
    LET r == folders.response[n] IN
    r.tool = "ldap_list_folders" =>
      /\ {r.result.folders[k] : k \in 1..Len(r.result.folders)} = FoundDNs
      /\ r.result.count = Len(folders.entries)

\* The nodes of a structure, each with its level and the DN of the node it
\* is a child of ("" for a root); null nodes are no nodes.
RECURSIVE NodesOf(_, _, _)
NodesOf(nodes, level, parent) ==
  IF nodes = << >> THEN << >>
  ELSE (IF nodes[1].null THEN << >>
        ELSE <<[dn |-> nodes[1].dn, level |-> level, parent |-> parent]>>
             \o NodesOf(nodes[1].children, level + 1, nodes[1].dn))
       \o NodesOf(Tail(nodes), level, parent)
\* The number of found entries above the entry with parts e, each the DN of
\* the one below it minus its first part.
RECURSIVE LevelOf(_)
LevelOf(e) ==
  IF Len(e) > 1 /\ Join(Tail(e)) \in FoundDNs THEN 1 + LevelOf(Tail(e)) ELSE 0

\* C27: in every answer of ldap_search_folder_structure total_entries is the
\* number of found entries; a found entry whose level is below depth is a
\* node of the structure exactly once, as a child of the node whose DN is its
\* DN minus the first part when that entry was found, and as a root
\* otherwise; a found entry at level >= depth is no node; there are no other
\* nodes.  With depth 10, above the height of the directory, every found
\* entry is a node.
C27_StructureIsForest ==
  \A n \in 1..Len(folders.response) :
    LET r == folders.response[n]
        nodes == NodesOf(r.result.structure.nodes, 0, "")
    IN
    r.tool = "ldap_search_folder_structure" =>
      /\ r.result.total_entries = Len(folders.entries)
      /\ \A k \in 1..Len(nodes) : nodes[k].dn \in FoundDNs
      /\ \A j \in 1..Len(folders.entries) :
           LET e == folders.entries[j]
               at == {k \in 1..Len(nodes) : nodes[k].dn = Join(e)}
           IN  IF LevelOf(e) >= r.depth THEN at = {}
               ELSE /\ Cardinality(at) = 1
                    /\ \A k \in at :
                         /\ nodes[k].level = LevelOf(e)
                         /\ nodes[k].parent =
                              IF Len(e) > 1 /\ Join(Tail(e)) \in FoundDNs
                              THEN Join(Tail(e)) ELSE ""
      /\ r.depth = 10 => Len(nodes) = Len(folders.entries)
\* The structure of three entries at depth 10: a folder, its child, and an
\* entry whose parent was not found.
C27_Witness ==
  /\ folders.entries =
       << <<[attr |-> "OU", value |-> "a"], [attr |-> "DC", value |-> "x"]>>,
          <<[attr |-> "CN", value |-> "c"], [attr |-> "DC", value |-> "y"]>>,
          <<[attr |-> "OU", value |-> "b"], [attr |-> "OU", value |-> "a"],
            [attr |-> "DC", value |-> "x"]>> >>
  /\ folders.response # << >>
  /\ folders.response[1].tool = "ldap_search_folder_structure"
  /\ folders.response[1].depth = 10
  /\ Len(folders.response[1].result.structure.nodes) = 2

(***************************************************************************)
(* C28: for every value of READ_ONLY_MODE the readonly option the SQLite   *)
(* database is opened with agrees with the policy of the server: after an  *)
(* execute_sql call the database is writable exactly when checkReadOnly()  *)
(* lets the tool pass, so no statement the gate let through is refused by  *)
(* the database as a write to a readonly database.                         *)
(***************************************************************************)
C28_SQLiteFlagAgreesWithPolicy ==
  (/\ adapterType = "SQLiteAdapter"
   /\ handle.kind = "adapter"
   /\ handle.last.tool = "execute_sql")
    => /\ handle.readonly <=> checkReadOnly
       /\ handle.last.outcome # SqliteReadonlyMessage

(***************************************************************************)
(* C30: on the MySQL backend a schema-scoped tool called through the       *)
(* handler without a schema argument makes the adapter look in the default *)
(* database parsed from the connection string.                             *)
(***************************************************************************)
C30_MySQLDefaultDatabase ==
  [][\A name \in SqlToolNames : \A args \in SqlToolArgs(name) :
       (/\ adapterType = "MySQLAdapter"
        /\ Cases[name].method \in SchemaMethods
        /\ Arg(args, "schema") = Unset
        /\ SqlTool(name, args)
        /\ handle'.driver = handle.driver + 1)
         => handle'.last.dbName = handle.defaultDatabase]_vars

\* The method uses the driver: it neither throws for the class nor returns
\* a constant.
NeedsDriver(class, method) ==
  /\ method \notin {"", "connect", "close"}
  /\ AdapterThrows(class, method) = ""
  /\ ~AdapterConstant(class, method)
\* close() has completed: the handle is null.
Closed == handle.kind = "adapter" /\ ~handle.handle

(***************************************************************************)
(* C29: once close() has completed, a call of a method that needs the      *)
(* driver fails with the not-initialized (MongoDB: not-connected) error    *)
(* and the driver is not called, and another close() changes nothing and   *)
(* calls nothing; a collection method of the MongoDB adapter called while  *)
(* this.db is not set, as before connect() has completed, fails with the   *)
(* same not-connected error without a driver call.                         *)
(***************************************************************************)
C29_AdapterLifecycle ==
  [][(handle.kind = "adapter" /\ handle'.n = handle.n + 1) =>
       LET method == handle'.last.call IN
       /\ (Closed /\ NeedsDriver(adapterType, method)) =>
            /\ handle'.last.outcome = NotInitializedMessage(adapterType)
            /\ handle'.driver = handle.driver
            /\ handle'.handle = handle.handle
       /\ (Closed /\ method = "close") =>
            /\ handle'.last.outcome = "ok"
            /\ handle' = [handle EXCEPT !.n = handle'.n, !.last = handle'.last]
       /\ (adapterType = "MongoAdapter" /\ ~handle.db
             /\ NeedsDriver(adapterType, method)) =>
            /\ handle'.last.outcome = "Database not connected"
            /\ handle'.driver = handle.driver
            /\ handle'.db = handle.db]_vars

\* close() was called and has completed, and a method that needs the driver
\* was called after it.
C29_Witness ==
  /\ Closed
  /\ handle.closing = 0
  /\ handle.driver = 1
  /\ handle.n >= 2
  /\ NeedsDriver(adapterType, handle.last.call)
  /\ handle.last.outcome = NotInitializedMessage(adapterType)

====
